---- MODULE Spec2Model ----
(***************************************************************************)
(* The in-memory RecorderClient of go-metrics and its query engine, with   *)
(* the tag handling of DataDogClient and the fan-out of MultiClient.       *)
(*                                                                         *)
(* Go values are represented as follows.                                   *)
(*   string            a tuple of one-character strings, <<"f","o","o">>   *)
(*   float64           an integer (the model only uses integral values,    *)
(*                     which float64 represents exactly); a sample rate    *)
(*                     is counted in tenths, 1.0 being RateOne             *)
(*   interface{}       a record [kind, v] carrying the dynamic type        *)
(*   map[string]string a function from a finite set of keys to values      *)
(*   []Call            a slice header [arr, len, cap] into the heap of     *)
(*                     backing arrays                                      *)
(*   []string          a slice header into the heap of string arrays       *)
(*   *T                an index into the heap of T structs                 *)
(* Where the identity of a map matters (tagmaps) a map is an index into a  *)
(* heap of maps, 0 being the nil map.                                      *)
(***************************************************************************)
EXTENDS Integers, Sequences, FiniteSets, TLC

\* ------------------------------------------------------------------ bounds
\* The concurrent specification Spec.
NThreads == 2
ConcClients == 2
ConcCalls == 2
ConcResets == 1
ConcReads == 1
ConcQueries == 1
\* The sequential specification SpecHandles.
HClients == 4
HRoots == 2
HCalls == 2
HResets == 1
\* The sequential specification SpecQuery.
QClients == 3
QCalls == 2
QQueries == 1
QSteps == 3
\* SpecEquiv
EClients == 2
ECalls == 2
AClients == 2
ACalls == 2
AQueries == 2
ASteps == 2
AReads == 1
RCalls == 4
RResets == 1
RGets == 1
\* SpecFatalf
XCalls == 3
XResets == 1
XClients == 2
XFatals == 1
LClients == 2
LCalls == 3
LResets == 1
LReads == 2
LGets == 1
DClients == 4
MClients == 3
MCalls == 2
\* SpecLive
VClients == 2
VCalls == 2
VResets == 1
VReads == 1
VQueries == 1
\* SpecCommute
CClients == 3
CCalls == 2
CQueries == 2
CSteps == 3
\* SpecSnapshot
SnClients == 2
SnCalls == 2
SnResets == 1
SnQueries == 1
SnSteps == 3
\* SpecTagMaps
TMaps == 2
TStores == 2
TClients == 3
TCalls == 2
\* SpecFilter
FClients == 4
FCalls == 2
FSteps == 3

Threads == 1..NThreads

\* The default sample rate 1.0, in tenths.
RateOne == 10

\* ----------------------------------------------------------------- strings
\* The characters the model uses, in byte order.
Ascii ==
  << " ", "(", ")", "*", "+", "-", ".", "0", "1", "2", "3", "4", "5", "6",
     "7", "8", "9", ":", "[", "]", "a", "b", "c", "d", "e", "f", "g", "h",
     "m", "n", "s", "µ" >>

Ord(ch) == CHOOSE i \in 1..Len(Ascii) : Ascii[i] = ch

\* Go's < on strings: bytewise lexicographic.
StrLess(s, t) ==
  \E i \in 1..(Len(t)) :
     /\ \A j \in 1..(i - 1) : j <= Len(s) /\ s[j] = t[j]
     /\ \/ i = Len(s) + 1
        \/ i <= Len(s) /\ Ord(s[i]) < Ord(t[i])

\* strings.Contains
Contains_(s, sub) ==
  \E i \in 0..(Len(s) - Len(sub)) : SubSeq(s, i + 1, i + Len(sub)) = sub

RECURSIVE Trim(_, _)
\* strings.Trim with a cutset of the one character ch.
Trim(s, ch) ==
  IF s = << >> THEN s
  ELSE IF s[1] = ch THEN Trim(Tail(s), ch)
  ELSE IF s[Len(s)] = ch THEN Trim(SubSeq(s, 1, Len(s) - 1), ch)
  ELSE s

RECURSIVE Join(_, _)
\* strings.Join
Join(strs, sep) ==
  IF Len(strs) = 0 THEN << >>
  ELSE IF Len(strs) = 1 THEN strs[1]
  ELSE strs[1] \o sep \o Join(Tail(strs), sep)

\* n copies of the string x.
Copies(x, n) == [i \in 1..n |-> x]

\* The bag B without the string x.
Without(B, x) == [y \in (DOMAIN B) \ {x} |-> B[y]]

RECURSIVE SortStrings_descending(_)
\* Mutant: the strings are sorted in descending order.
SortStrings_descending(B) ==
  IF DOMAIN B = {} THEN << >>
  ELSE LET m == CHOOSE x \in DOMAIN B : \A y \in (DOMAIN B) \ {x} : StrLess(y, x)
       IN  Copies(m, B[m]) \o SortStrings_descending(Without(B, m))

RECURSIVE SortStrings(_)
\* sort.Strings applied to a slice of strings given as a bag, a function
\* from the strings to their numbers of copies (the order the map iteration
\* gave them is irrelevant once sorted).
SortStrings(B) ==
  IF DOMAIN B = {} THEN << >>
  ELSE LET m == CHOOSE x \in DOMAIN B : \A y \in (DOMAIN B) \ {x} : StrLess(x, y)
       IN  Copies(m, B[m]) \o SortStrings(Without(B, m))

RECURSIVE FmtNat(_)
FmtNat(n) ==
  IF n < 10 THEN << Ascii[Ord("0") + n] >>
  ELSE FmtNat(n \div 10) \o << Ascii[Ord("0") + (n % 10)] >>

\* fmt's %v of an integer.
FmtInt(n) == IF n < 0 THEN <<"-">> \o FmtNat(0 - n) ELSE FmtNat(n)

RECURSIVE TrimZeros(_)
\* The digits ds without their trailing zeros.
TrimZeros(ds) ==
  IF ds # << >> /\ ds[Len(ds)] = "0" THEN TrimZeros(SubSeq(ds, 1, Len(ds) - 1))
  ELSE ds

\* strconv's %e form of the digits ds with the decimal exponent e: d.ddde+XX,
\* the exponent with its sign and two digits at least.
FmtExp(ds, e) ==
  << ds[1] >> \o (IF Len(ds) > 1 THEN <<".">> \o Tail(ds) ELSE << >>)
     \o <<"e">> \o (IF e < 0 THEN <<"-">> ELSE <<"+">>)
     \o (IF e < 10 /\ e > -10 THEN <<"0">> ELSE << >>)
     \o FmtNat(IF e < 0 THEN 0 - e ELSE e)

\* strconv's %f form of the digits ds with the decimal point after the
\* first dp of them: the integer part, padded with zeros or "0" when there
\* is none, then the point and the digits left, if any.
FmtFixed(ds, dp) ==
  (IF dp <= 0 THEN <<"0">>
   ELSE [i \in 1..dp |-> IF i <= Len(ds) THEN ds[i] ELSE "0"])
    \o (IF Len(ds) > dp
        THEN <<".">> \o [i \in 1..(0 - dp) |-> "0"]
               \o SubSeq(ds, (IF dp > 0 THEN dp ELSE 0) + 1, Len(ds))
        ELSE << >>)

\* strconv's %g with the shortest digits, 0.ds * 10^dp: the exponent form
\* when the decimal exponent dp - 1 is below -4 or is 6 or more.
FmtShortest(ds, dp) ==
  IF dp - 1 < -4 \/ dp - 1 >= 6 THEN FmtExp(ds, dp - 1) ELSE FmtFixed(ds, dp)

\* fmt's %v of an integral float64.
FmtFloat(v) ==
  LET ds == FmtNat(IF v < 0 THEN 0 - v ELSE v)
  IN  IF v = 0 THEN <<"0">>
      ELSE (IF v < 0 THEN <<"-">> ELSE << >>)
             \o FmtShortest(TrimZeros(ds), Len(ds))

RECURSIVE Pow10(_)
Pow10(p) == IF p = 0 THEN 1 ELSE 10 * Pow10(p - 1)

RECURSIVE PadNat(_, _)
\* The last p decimal digits of n, leading zeros included.
PadNat(n, p) ==
  IF p = 0 THEN << >>
  ELSE PadNat(n \div 10, p - 1) \o << Ascii[Ord("0") + (n % 10)] >>

\* time's fmtFrac: the fraction of v / 10^prec, without trailing zeros, and
\* without the point when it is zero.
fmtFrac(v, prec) ==
  LET ds == TrimZeros(PadNat(v % Pow10(prec), prec))
  IN  IF ds = << >> THEN << >> ELSE <<".">> \o ds

\* time.Duration.String of d nanoseconds: fmt's %v of a Duration.
Duration_String(d) ==
  LET u == IF d < 0 THEN 0 - d ELSE d
      secs == u \div 1000000000
      mins == secs \div 60
      hours == mins \div 60
      text ==
        IF u = 0 THEN <<"0", "s">>
        ELSE IF u < 1000 THEN FmtNat(u) \o <<"n", "s">>
        ELSE IF u < 1000000
             THEN FmtNat(u \div 1000) \o fmtFrac(u, 3) \o <<"µ", "s">>
        ELSE IF u < 1000000000
             THEN FmtNat(u \div 1000000) \o fmtFrac(u, 6) \o <<"m", "s">>
        ELSE (IF hours > 0 THEN FmtNat(hours) \o <<"h">> ELSE << >>)
               \o (IF mins > 0 THEN FmtNat(mins % 60) \o <<"m">> ELSE << >>)
               \o FmtNat(secs % 60) \o fmtFrac(u, 9) \o <<"s">>
  IN  IF d < 0 /\ u # 0 THEN <<"-">> \o text ELSE text

\* fmt's %v of a rate, a float64 given in tenths: the digits are those of
\* the number of tenths, the decimal point one place further left.
FmtRate(r) ==
  LET ds == FmtNat(IF r < 0 THEN 0 - r ELSE r)
  IN  IF r = 0 THEN <<"0">>
      ELSE (IF r < 0 THEN <<"-">> ELSE << >>)
             \o FmtShortest(TrimZeros(ds), Len(ds) - 1)

\* -------------------------------------------------------------------- tags
\* Keys and values are strings.
EmptyMap == [k \in {} |-> << >>]

\* Mutant: on a key of both maps the original value is kept.
combine_originalWins(original, override) ==
  [k \in (DOMAIN original) \cup (DOMAIN override) |->
      IF k \in DOMAIN original THEN original[k] ELSE override[k]]

combine(original, override) ==
  [k \in (DOMAIN original) \cup (DOMAIN override) |->
      IF k \in DOMAIN override THEN override[k] ELSE original[k]]

buildTag(k, v) == k \o <<":">> \o v

\* The strings mapToStrings yields, one for each key, as a bag: the slice is
\* in map iteration order, and two keys may build the same string.
mapToStrings(tagMap) ==
  [s \in { buildTag(k, tagMap[k]) : k \in DOMAIN tagMap } |->
      Cardinality({ k \in DOMAIN tagMap : buildTag(k, tagMap[k]) = s })]

\* ----------------------------------------------------------- numeric input
Convertible(value) == value.kind \in {"int64", "float64", "Duration"}

\* toFloat64 with the panic of convertType made explicit.
toFloat64(value) ==
  IF Convertible(value) THEN [panic |-> FALSE, f |-> value.v]
  ELSE [panic |-> TRUE, f |-> 0]

\* A string handed over as an interface{}.
Str(s) == [kind |-> "string", v |-> s]
Int64(n) == [kind |-> "int64", v |-> n]
Float64(n) == [kind |-> "float64", v |-> n]
Duration(n) == [kind |-> "Duration", v |-> n]

\* ------------------------------------------------------------------- calls
NilCall == [type |-> "nil"]

MetricCall(id, name, value, rate, tagMap) ==
  [type |-> "MetricCall", id |-> id, Name |-> name, Value |-> value,
   Rate |-> rate, TagMap |-> tagMap]

EventCall(id, e, tagMap) ==
  [type |-> "EventCall", id |-> id, Event |-> e, TagMap |-> tagMap]

\* fmt's %v of a []string.
FmtStrings(tags) == <<"[">> \o Join(tags, <<" ">>) \o <<"]">>

MetricCall_String(m) ==
  LET tags == SortStrings(mapToStrings(m.TagMap)) IN
  IF m.Rate # RateOne
  THEN m.Name \o <<":">> \o FmtFloat(m.Value) \o <<"(">> \o FmtRate(m.Rate)
         \o <<")">> \o FmtStrings(tags)
  ELSE m.Name \o <<":">> \o FmtFloat(m.Value) \o FmtStrings(tags)

EventCall_String(e) ==
  LET tags == SortStrings(mapToStrings(e.TagMap)) IN
  e.Event.Title \o <<":">> \o e.Event.Text \o FmtStrings(tags)

String(call) ==
  IF call.type = "MetricCall" THEN MetricCall_String(call)
  ELSE EventCall_String(call)

\* ------------------------------------------------------------------ slices
EmptySlice == [arr |-> 0, len |-> 0, cap |-> 0]

\* The minor number of the Go release the module asks for (go 1.12), the
\* oldest toolchain that builds it.  The runtime allocates and grows a slice
\* by the rules of the release that builds the program, given below for
\* Go 1.12 to Go 1.21; the releases agree on arrays of up to 32 calls.
GoMinor == 12

\* The bytes of a Call, an interface value (two words of 8 bytes).
CallSize == 16

\* The size classes of the allocator in the runtime since Go 1.16, in bytes
\* (runtime.class_to_size without class 0).
SizeClasses16 ==
  << 8, 16, 24, 32, 48, 64, 80, 96, 112, 128, 144, 160, 176, 192, 208, 224,
     240, 256, 288, 320, 352, 384, 416, 448, 480, 512, 576, 640, 704, 768,
     896, 1024, 1152, 1280, 1408, 1536, 1792, 2048, 2304, 2688, 3072, 3200,
     3456, 4096, 4864, 5376, 6144, 6528, 6784, 6912, 8192, 9472, 9728,
     10240, 10880, 12288, 13568, 14336, 16384, 18432, 19072, 20480, 21760,
     24576, 27264, 28672, 32768 >>

\* The size classes before Go 1.16: the same without the class of 24 bytes.
SizeClasses12 == << 8, 16 >> \o SubSeq(SizeClasses16, 4, Len(SizeClasses16))

\* The runtime's roundupsize in Go 1.minor: the bytes the allocator hands
\* out for a request of size bytes, the smallest size class that holds it
\* (class 0, of no bytes, for a request of none) or, beyond the classes,
\* whole pages of 8192 bytes.
roundupsize(minor, size) ==
  LET classes == IF minor >= 16 THEN SizeClasses16 ELSE SizeClasses12
  IN  IF size = 0 THEN 0
      ELSE IF size <= classes[Len(classes)]
      THEN classes[CHOOSE i \in 1..Len(classes) :
                      /\ classes[i] >= size
                      /\ i > 1 => classes[i - 1] < size]
      ELSE ((size + 8191) \div 8192) * 8192

\* The capacity the runtime's growslice of Go 1.minor gives a full slice of
\* cap calls that one more is appended to.  It doubles a small slice (the
\* first call makes room for one) and adds a quarter to a large one, from
\* 1024 calls on before Go 1.18 and in a smooth transition from 256 calls on
\* since; the result is what fits the memory the allocator hands out.
growslice(minor, cap) ==
  LET newcap == IF cap = 0 THEN 1
                ELSE IF minor < 18
                THEN IF cap < 1024 THEN cap + cap ELSE cap + cap \div 4
                ELSE IF cap < 256 THEN cap + cap ELSE cap + (cap + 768) \div 4
  IN  roundupsize(minor, newcap * CallSize) \div CallSize

\* The capacity append gives a full slice of cap calls.
growCap(cap) == growslice(GoMinor, cap)

\* append(s, x) on the heap arrs of backing arrays: in place when the
\* capacity allows, into a fresh array otherwise.
append(arrs, s, x) ==
  IF s.len < s.cap
  THEN [arrays |-> [arrs EXCEPT ![s.arr][s.len + 1] = x],
        slice  |-> [s EXCEPT !.len = s.len + 1]]
  ELSE LET ncap == growCap(s.cap)
           new  == [i \in 1..ncap |->
                      IF i <= s.len THEN arrs[s.arr][i]
                      ELSE IF i = s.len + 1 THEN x ELSE NilCall]
       IN  [arrays |-> Append(arrs, new),
            slice  |-> [arr |-> Len(arrs) + 1, len |-> s.len + 1, cap |-> ncap]]

\* The elements a slice header denotes.
Elems(arrs, s) == [i \in 1..s.len |-> arrs[s.arr][i]]

\* ------------------------------------------------------------------- state
VARIABLES
  clients,   \* heap of RecorderClient structs
  callInfo,  \* heap of callInfo structs: [Calls, RWMutex]
  arrays,    \* heap of the backing arrays of the Calls slices
  queries,   \* heap of query structs
  pc,        \* per goroutine: where it stands
  frame,     \* per goroutine: the locals of the operation it runs or ran last
  fatals,    \* the Fatalf invocations the TestFailers received, in order
  parent,    \* per client: the call that made it, [c, op, arg] (c the receiver,
             \* 0 for the constructor)
  made,      \* the recording calls invoked so far, in invocation order
  acq,       \* the write-lock acquisitions so far, in order
  nresets,   \* the number of Reset calls invoked so far
  nreads,    \* the number of Length calls invoked so far
  nqueries,  \* the number of queries asked for so far
  gets,      \* what the GetCalls calls of the recorder returned, in order
  datadog,   \* the DataDogClient structs and the backing arrays of their tags
  multi,     \* the MultiClient structs and the operations invoked on them
  tagmaps    \* the tag mappings as objects: the heap of maps and the handles,
             \* log entries and callers' variables that refer to them

counters == << nresets, nreads, nqueries, gets, datadog, multi, tagmaps >>

vars ==
  << clients, callInfo, arrays, queries, pc, frame, fatals, parent, made, acq,
     counters >>

\* sync.RWMutex: w, a writer holds it; r, the number of readers holding it;
\* ww, the number of writers that called Lock and have not got it; ann, one
\* of them has announced itself to the readers and waits for those that hold
\* the lock to leave (new readers block until it has had the lock).
FreeMutex == [w |-> FALSE, r |-> 0, ww |-> 0, ann |-> FALSE]

RecorderClient(ci, test, rate, tagMap) ==
  [callInfo |-> ci, test |-> test, rate |-> rate, tagMap |-> tagMap]

\* The arguments in the frame of an operation that takes none.
NoArgs == [none |-> 0]

\* The format and arguments of a call of Fatalf; none outside Fatalf.
NoMsg == [format |-> << >>, args |-> << >>]

\* A frame: op names the operation, arg holds its arguments (a record whose
\* fields tell the operations' signatures apart), outcome how it ended.
\* Inside Fatalf, msg is what Fatalf was called with, s the words of the
\* slice header stackInfo has loaded, and fill the calls each backing array
\* held when Fatalf was entered.
Frame(op, c, id, arg) ==
  [op |-> op, c |-> c, id |-> id, arg |-> arg, tagMapCopy |-> EmptyMap,
   s |-> EmptySlice, calls |-> << >>, i |-> 0, nacq |-> 0, q |-> 0,
   ret |-> 0, msg |-> NoMsg, fill |-> << >>, outcome |-> "running"]

NoFrame == Frame("none", 0, 0, NoArgs)

Mutex(t) == callInfo[clients[frame[t].c].callInfo].RWMutex

\* The calls of a client's shared log.
Calls(c) == Elems(arrays, callInfo[clients[c].callInfo].Calls)

RECURSIVE root(_)
\* The constructor-made client a client derives from.
root(c) == IF parent[c].c = 0 THEN c ELSE root(parent[c].c)

Init ==
  /\ clients = << RecorderClient(1, "nil", RateOne, EmptyMap) >>
  /\ callInfo = << [Calls |-> EmptySlice, RWMutex |-> FreeMutex] >>
  /\ arrays = << >>
  /\ queries = << >>
  /\ pc = [t \in Threads |-> "idle"]
  /\ frame = [t \in Threads |-> NoFrame]
  /\ fatals = << >>
  /\ parent = << [c |-> 0, op |-> "NewRecorderClient", arg |-> 0] >>
  /\ made = << >>
  /\ acq = << >>
  /\ nresets = 0
  /\ nreads = 0
  /\ nqueries = 0
  /\ gets = << >>
  /\ datadog = [clients |-> << >>, arrays |-> << >>]
  /\ multi = [clients |-> << >>, calls |-> << >>]
  /\ tagmaps = [heap |-> << >>, clients |-> << [tagMap |-> 0, parent |-> 0] >>,
                Calls |-> << >>, caller |-> << >>, stores |-> 0]

\* ------------------------------------------------------------ constructors
NewRecorderClient(t) ==
  /\ pc[t] = "idle"
  /\ callInfo' = Append(callInfo, [Calls |-> EmptySlice, RWMutex |-> FreeMutex])
  /\ clients' = Append(clients,
                  RecorderClient(Len(callInfo) + 1, "nil", RateOne, EmptyMap))
  /\ parent' = Append(parent, [c |-> 0, op |-> "NewRecorderClient", arg |-> 0])
  /\ UNCHANGED << arrays, queries, pc, frame, fatals, made, acq, counters >>

\* The struct WithTags builds.
WithTags_client(c, tags) ==
  RecorderClient(clients[c].callInfo, clients[c].test, clients[c].rate,
                 combine(clients[c].tagMap, tags))

\* Mutant: the receiver's own tags are updated and the receiver's struct is
\* what the clone holds.
WithTags_inPlace(t, c, tags) ==
  /\ pc[t] = "idle"
  /\ clients' = Append([clients EXCEPT ![c].tagMap = combine(@, tags)],
                        WithTags_client(c, tags))
  /\ parent' = Append(parent, [c |-> c, op |-> "WithTags", arg |-> tags])
  /\ UNCHANGED << callInfo, arrays, queries, pc, frame, fatals, made, acq,
                  counters >>

\* Mutant: the clone gets a copy of the callInfo struct, not the pointer.
WithTags_byValue(t, c, tags) ==
  /\ pc[t] = "idle"
  /\ callInfo' = Append(callInfo, callInfo[clients[c].callInfo])
  /\ clients' = Append(clients,
                  RecorderClient(Len(callInfo) + 1, clients[c].test, clients[c].rate,
                                 combine(clients[c].tagMap, tags)))
  /\ parent' = Append(parent, [c |-> c, op |-> "WithTags", arg |-> tags])
  /\ UNCHANGED << arrays, queries, pc, frame, fatals, made, acq, counters >>

WithTags(t, c, tags) ==
  /\ pc[t] = "idle"
  /\ clients' = Append(clients, WithTags_client(c, tags))
  /\ parent' = Append(parent, [c |-> c, op |-> "WithTags", arg |-> tags])
  /\ UNCHANGED << callInfo, arrays, queries, pc, frame, fatals, made, acq,
                  counters >>

\* The struct WithRate builds.
WithRate_client(c, rate) ==
  RecorderClient(clients[c].callInfo, clients[c].test, rate,
                 combine(EmptyMap, clients[c].tagMap))

WithRate(t, c, rate) ==
  /\ pc[t] = "idle"
  /\ clients' = Append(clients, WithRate_client(c, rate))
  /\ parent' = Append(parent, [c |-> c, op |-> "WithRate", arg |-> rate])
  /\ UNCHANGED << callInfo, arrays, queries, pc, frame, fatals, made, acq,
                  counters >>

\* The struct WithTest builds.
WithTest_client(c, test) ==
  RecorderClient(clients[c].callInfo, test, clients[c].rate, clients[c].tagMap)

WithTest(t, c, test) ==
  /\ pc[t] = "idle"
  /\ clients' = Append(clients, WithTest_client(c, test))
  /\ parent' = Append(parent, [c |-> c, op |-> "WithTest", arg |-> test])
  /\ UNCHANGED << callInfo, arrays, queries, pc, frame, fatals, made, acq,
                  counters >>

\* ----------------------------------------------------------------- locking
\* The lock is a sync.RWMutex.  w: a writer holds it; r: the readers that
\* hold it; ww: the writers that have called Lock and not returned yet; ann:
\* one of these has passed the writers' mutex and announced itself, and
\* waits for the readers that hold the lock to leave.  A reader that arrives
\* while a writer holds the lock or has announced itself blocks, and the
\* writer's Unlock admits every reader blocked by then before it lets the
\* next writer in.

\* Lock is called.
LockCall(t, c) ==
  /\ callInfo' = [callInfo EXCEPT ![clients[c].callInfo].RWMutex.ww = @ + 1]
  /\ pc' = [pc EXCEPT ![t] = "Lock"]

\* Mutant: Lock excludes nobody.
CanLock_always(m) == TRUE

\* A writer that has the writers' mutex has the lock when no writer and no
\* reader holds it.
CanLock(m) == ~m.w /\ m.r = 0

\* A reader passes when no writer holds the lock or has announced itself.
CanRLock(m) == ~m.w /\ ~m.ann

\* A step of Lock.  A writer takes the writers' mutex when no other writer
\* has it, that is when none holds the lock or has announced itself; it
\* then has the lock at once when no reader holds it (Lock returns, the
\* critical section begins), and otherwise has announced itself and waits
\* until the last of these readers has left.
RWMutex_Lock(t) ==
  /\ \/ pc[t] = "Lock" /\ ~Mutex(t).ann
     \/ pc[t] = "Lock_wait"
  /\ IF CanLock(Mutex(t))
     THEN /\ callInfo' = [callInfo EXCEPT ![clients[frame[t].c].callInfo].RWMutex =
                            [w |-> TRUE, r |-> @.r, ww |-> @.ww - 1, ann |-> FALSE]]
          /\ pc' = [pc EXCEPT ![t] = frame[t].op]
          /\ acq' = Append(acq, [op |-> frame[t].op, id |-> frame[t].id,
                                  ci |-> clients[frame[t].c].callInfo])
     ELSE /\ pc[t] = "Lock" /\ ~Mutex(t).w
          /\ callInfo' = [callInfo EXCEPT
                            ![clients[frame[t].c].callInfo].RWMutex.ann = TRUE]
          /\ pc' = [pc EXCEPT ![t] = "Lock_wait"]
          /\ acq' = acq
  /\ UNCHANGED << clients, arrays, queries, frame, fatals, parent, made, counters >>

\* The goroutines blocked in RLock on the lock of log ci.
BlockedReaders(ci) ==
  { u \in Threads : pc[u] = "RLock_wait" /\ clients[frame[u].c].callInfo = ci }

\* The deferred Unlock runs and the operation returns.  The readers blocked
\* in RLock are admitted: each of them holds the lock from here on.
RWMutex_Unlock(t) ==
  /\ pc[t] = "Unlock"
  /\ LET ci == clients[frame[t].c].callInfo
         woken == BlockedReaders(ci) \ {t}
     IN  /\ callInfo' = [callInfo EXCEPT ![ci].RWMutex.w = FALSE,
                                         ![ci].RWMutex.r = @ + Cardinality(woken)]
         /\ pc' = [u \in Threads |->
                     IF u = t THEN "idle"
                     ELSE IF u \in woken THEN frame[u].op ELSE pc[u]]
         /\ frame' = [u \in Threads |->
                        IF u = t
                        THEN [Frame(frame[t].op, frame[t].c, frame[t].id, NoArgs)
                                EXCEPT !.outcome = "returned"]
                        ELSE IF u \in woken THEN [frame[u] EXCEPT !.nacq = Len(acq)]
                        ELSE frame[u]]
  /\ made' = IF frame[t].op \in {"logCall", "Event"}
             THEN [made EXCEPT ![frame[t].id].outcome = "returned"]
             ELSE made
  /\ UNCHANGED << clients, arrays, queries, fatals, parent, acq, counters >>

\* A step of RLock: it returns when no writer holds the lock or has
\* announced itself, and otherwise blocks until a writer's Unlock.
RWMutex_RLock(t) ==
  /\ pc[t] = "RLock"
  /\ IF CanRLock(Mutex(t))
     THEN /\ callInfo' = [callInfo EXCEPT
                            ![clients[frame[t].c].callInfo].RWMutex.r = @ + 1]
          /\ pc' = [pc EXCEPT ![t] = frame[t].op]
          /\ frame' = [frame EXCEPT ![t].nacq = Len(acq)]
     ELSE /\ pc' = [pc EXCEPT ![t] = "RLock_wait"]
          /\ UNCHANGED << callInfo, frame >>
  /\ UNCHANGED << clients, arrays, queries, fatals, parent, made, acq, counters >>

\* --------------------------------------------------------------- recording
\* The loop that copies the client's tags into a map made for the call.
copyTags(tagMap) == [k \in DOMAIN tagMap |-> tagMap[k]]

\* The operation goroutine t has in progress on a MultiClient, 0 if none.
MultiCall(t) ==
  IF \E k \in 1..Len(multi.calls) :
        multi.calls[k].t = t /\ multi.calls[k].outcome = "running"
  THEN CHOOSE k \in 1..Len(multi.calls) :
          multi.calls[k].t = t /\ multi.calls[k].outcome = "running"
  ELSE 0

\* logCall up to its call of Lock: the tags are copied first.  In made,
\* loop is the MultiClient operation whose loop makes the call (0 when the
\* client is called directly).
logCall(t, c, name, value) ==
  /\ pc[t] = "idle"
  /\ made' = Append(made, [c |-> c, loop |-> MultiCall(t), type |-> "MetricCall",
                           name |-> name, value |-> value, outcome |-> "pending"])
  /\ frame' = [frame EXCEPT ![t] =
                 [Frame("logCall", c, Len(made) + 1, [name |-> name, value |-> value])
                    EXCEPT !.tagMapCopy = copyTags(clients[c].tagMap)]]
  /\ LockCall(t, c)
  /\ UNCHANGED << clients, arrays, queries, fatals, parent, acq, counters >>

\* append's operand c.callInfo.Calls is read.
logCall_load(t) ==
  /\ pc[t] = "logCall"
  /\ frame' = [frame EXCEPT ![t].s = callInfo[clients[frame[t].c].callInfo].Calls]
  /\ pc' = [pc EXCEPT ![t] = "logCall_store"]
  /\ UNCHANGED << clients, callInfo, arrays, queries, fatals, parent, made, acq,
                  counters >>

\* Mutant: every call is recorded with the default rate.
logCall_store_rateOne(t) ==
  /\ pc[t] = "logCall_store"
  /\ LET f == frame[t]
         r == append(arrays, f.s,
                     MetricCall(f.id, f.arg.name, toFloat64(f.arg.value).f,
                                RateOne, f.tagMapCopy))
     IN  /\ arrays' = r.arrays
         /\ callInfo' = [callInfo EXCEPT ![clients[f.c].callInfo].Calls = r.slice]
  /\ pc' = [pc EXCEPT ![t] = "Unlock"]
  /\ UNCHANGED << clients, queries, frame, fatals, parent, made, acq, counters >>

\* Mutant: a call is kept with the probability of its rate, so a call made
\* at a rate below 1.0 may be left out of the log.
logCall_store_sampled(t) ==
  /\ pc[t] = "logCall_store"
  /\ LET f == frame[t]
         r == append(arrays, f.s,
                     MetricCall(f.id, f.arg.name, toFloat64(f.arg.value).f,
                                clients[f.c].rate, f.tagMapCopy))
     IN  \/ /\ arrays' = r.arrays
            /\ callInfo' = [callInfo EXCEPT ![clients[f.c].callInfo].Calls = r.slice]
         \/ /\ clients[f.c].rate < RateOne
            /\ UNCHANGED << arrays, callInfo >>
  /\ pc' = [pc EXCEPT ![t] = "Unlock"]
  /\ UNCHANGED << clients, queries, frame, fatals, parent, made, acq, counters >>

\* The MetricCall is built and appended, the result assigned to Calls.
logCall_store(t) ==
  /\ pc[t] = "logCall_store"
  /\ LET f == frame[t]
         r == append(arrays, f.s,
                     MetricCall(f.id, f.arg.name, toFloat64(f.arg.value).f,
                                clients[f.c].rate, f.tagMapCopy))
     IN  /\ arrays' = r.arrays
         /\ callInfo' = [callInfo EXCEPT ![clients[f.c].callInfo].Calls = r.slice]
  /\ pc' = [pc EXCEPT ![t] = "Unlock"]
  /\ UNCHANGED << clients, queries, frame, fatals, parent, made, acq, counters >>

Count(t, c, name, value) == logCall(t, c, name, Int64(value))

Incr(t, c, name) == Count(t, c, name, 1)

Decr(t, c, name) == Count(t, c, name, 0 - 1)

Gauge(t, c, name, value) == logCall(t, c, name, Float64(value))

Timing(t, c, name, value) == logCall(t, c, name, Duration(value))

Histogram(t, c, name, value) == logCall(t, c, name, Float64(value))

\* Event up to its call of Lock. tagMapCopy is declared and never made, so
\* it is nil: the first assignment of the copying loop panics.
Event(t, c, e) ==
  /\ pc[t] = "idle"
  /\ IF DOMAIN clients[c].tagMap # {}
     THEN /\ made' = Append(made, [c |-> c, loop |-> MultiCall(t),
                                   type |-> "EventCall", e |-> e,
                                   outcome |-> "panic"])
          /\ frame' = [frame EXCEPT ![t] =
                         [Frame("Event", c, Len(made) + 1, [e |-> e])
                            EXCEPT !.outcome = "panic"]]
          /\ UNCHANGED << callInfo, pc >>
     ELSE /\ made' = Append(made, [c |-> c, loop |-> MultiCall(t),
                                   type |-> "EventCall", e |-> e,
                                   outcome |-> "pending"])
          /\ frame' = [frame EXCEPT ![t] = Frame("Event", c, Len(made) + 1, [e |-> e])]
          /\ LockCall(t, c)
  /\ UNCHANGED << clients, arrays, queries, fatals, parent, acq, counters >>

Event_load(t) ==
  /\ pc[t] = "Event"
  /\ frame' = [frame EXCEPT ![t].s = callInfo[clients[frame[t].c].callInfo].Calls]
  /\ pc' = [pc EXCEPT ![t] = "Event_store"]
  /\ UNCHANGED << clients, callInfo, arrays, queries, fatals, parent, made, acq,
                  counters >>

Event_store(t) ==
  /\ pc[t] = "Event_store"
  /\ LET f == frame[t]
         r == append(arrays, f.s, EventCall(f.id, f.arg.e, f.tagMapCopy))
     IN  /\ arrays' = r.arrays
         /\ callInfo' = [callInfo EXCEPT ![clients[f.c].callInfo].Calls = r.slice]
  /\ pc' = [pc EXCEPT ![t] = "Unlock"]
  /\ UNCHANGED << clients, queries, frame, fatals, parent, made, acq, counters >>

\* Mutant: Reset clears the log without taking the lock.
Reset_nolock(t, c) ==
  /\ pc[t] = "idle"
  /\ nresets' = nresets + 1
  /\ frame' = [frame EXCEPT ![t] = Frame("Reset", c, 0, NoArgs)]
  /\ pc' = [pc EXCEPT ![t] = "Reset"]
  /\ UNCHANGED << clients, callInfo, arrays, queries, fatals, parent, made, acq,
                  nreads, nqueries, gets, datadog, multi,
                  tagmaps >>

\* Reset up to its call of Lock.
Reset(t, c) ==
  /\ pc[t] = "idle"
  /\ nresets' = nresets + 1
  /\ frame' = [frame EXCEPT ![t] = Frame("Reset", c, 0, NoArgs)]
  /\ LockCall(t, c)
  /\ UNCHANGED << clients, arrays, queries, fatals, parent, made, acq, nreads,
                  nqueries, gets, datadog, multi,
                  tagmaps >>

\* Mutant: Reset leaves the log as it is.
Reset_store_keep(t) ==
  /\ pc[t] = "Reset"
  /\ pc' = [pc EXCEPT ![t] = "Unlock"]
  /\ UNCHANGED << clients, callInfo, arrays, queries, frame, fatals, parent,
                  made, acq, counters >>

\* Calls is replaced by a new empty slice.
Reset_store(t) ==
  /\ pc[t] = "Reset"
  /\ callInfo' = [callInfo EXCEPT ![clients[frame[t].c].callInfo].Calls = EmptySlice]
  /\ pc' = [pc EXCEPT ![t] = "Unlock"]
  /\ UNCHANGED << clients, arrays, queries, frame, fatals, parent, made, acq,
                  counters >>

\* Length up to its call of RLock.
Length(t, c) ==
  /\ pc[t] = "idle"
  /\ nreads' = nreads + 1
  /\ frame' = [frame EXCEPT ![t] = Frame("Length", c, 0, NoArgs)]
  /\ pc' = [pc EXCEPT ![t] = "RLock"]
  /\ UNCHANGED << clients, callInfo, arrays, queries, fatals, parent, made, acq,
                  nresets, nqueries, gets, datadog, multi,
                  tagmaps >>

\* len(c.callInfo.Calls) is read; the deferred RUnlock runs and Length returns.
Length_return(t) ==
  /\ pc[t] = "Length"
  /\ frame' = [frame EXCEPT ![t].ret = callInfo[clients[frame[t].c].callInfo].Calls.len,
                            ![t].outcome = "returned"]
  /\ callInfo' = [callInfo EXCEPT ![clients[frame[t].c].callInfo].RWMutex.r = @ - 1]
  /\ pc' = [pc EXCEPT ![t] = "idle"]
  /\ UNCHANGED << clients, arrays, queries, fatals, parent, made, acq, counters >>

\* ----------------------------------------------------------------- queries
\* The TestFailers of the model: "mock" records the failure and returns,
\* "T" does not return (testing.T exits the goroutine, a fake may panic).
\* "nil" is no TestFailer.
Tests == {"mock", "T"}

\* The memory behind a []Call of k elements of which the first Len(calls)
\* are written: the others are nil.
Block(calls, k) == [i \in 1..k |-> IF i <= Len(calls) THEN calls[i] ELSE NilCall]

\* make([]Call, n): the memory the allocator hands out for n calls, none
\* when n is 0.
makeBlocks(calls) ==
  IF calls = << >> THEN << >>
  ELSE << Block(calls, roundupsize(GoMinor, Len(calls) * CallSize) \div CallSize) >>

\* The arrays append allocates while filter builds calls one call at a
\* time from a nil slice that has grown to cap so far: each holds the calls
\* appended until it was full, the last one those of the result.
RECURSIVE appendBlocks(_, _)
appendBlocks(calls, cap) ==
  IF cap >= Len(calls) THEN << >>
  ELSE LET k == growCap(cap)
       IN  << Block(SubSeq(calls, 1, IF k < Len(calls) THEN k ELSE Len(calls)), k) >>
              \o appendBlocks(calls, k)

query(calls, test, minCalls, checkMin, owner, entry) ==
  [calls |-> calls, test |-> test, minCalls |-> minCalls, checkMin |-> checkMin,
   history |-> << >>,
   \* the arrays of calls the chain has allocated, collected or not: the
   \* copy of callsCopy, then those of each filter
   blocks |-> makeBlocks(calls),
   \* history variables: the goroutine running the chain, the entry point
   \* and its argument, the slice callsCopy returned, the number of
   \* write-lock acquisitions that preceded callsCopy's RLock, the number of
   \* steps applied, their names and their arguments, the numbers handed to
   \* MinTimes, whether the chain has ended
   owner |-> owner, entry |-> entry.entry, arg |-> entry.arg,
   snap |-> calls, nacq |-> frame[owner].nacq,
   nsteps |-> 0, trace |-> << >>, args |-> << >>, mins |-> << >>,
   done |-> FALSE]

\* Expect, ExpectContains and If up to callsCopy's call of RLock.
callsCopy(t, c, entry, arg) ==
  /\ pc[t] = "idle"
  /\ nqueries' = nqueries + 1
  /\ frame' = [frame EXCEPT ![t] = Frame("callsCopy", c, 0, [entry |-> entry, arg |-> arg])]
  /\ pc' = [pc EXCEPT ![t] = "RLock"]
  /\ UNCHANGED << clients, callInfo, arrays, queries, fatals, parent, made, acq,
                  nresets, nreads, gets, datadog, multi,
                  tagmaps >>

Expect(t, c, id) == callsCopy(t, c, "Expect", id)

ExpectContains(t, c, component) == callsCopy(t, c, "ExpectContains", component)

If(t, c, id) == callsCopy(t, c, "If", id)

\* calls := make([]Call, len(c.callInfo.Calls))
callsCopy_make(t) ==
  /\ pc[t] = "callsCopy"
  /\ frame' = [frame EXCEPT
                 ![t].calls = [i \in 1..callInfo[clients[frame[t].c].callInfo].Calls.len
                                 |-> NilCall],
                 ![t].i = 0]
  /\ pc' = [pc EXCEPT ![t] = "callsCopy_loop"]
  /\ UNCHANGED << clients, callInfo, arrays, queries, fatals, parent, made, acq,
                  counters >>

\* One iteration of the copying loop.
callsCopy_loop(t) ==
  /\ pc[t] = "callsCopy_loop"
  /\ frame[t].i < callInfo[clients[frame[t].c].callInfo].Calls.len
  /\ frame[t].i < Len(frame[t].calls)
  /\ frame' = [frame EXCEPT
                 ![t].calls[frame[t].i + 1] = Calls(frame[t].c)[frame[t].i + 1],
                 ![t].i = @ + 1]
  /\ UNCHANGED << clients, callInfo, arrays, queries, pc, fatals, parent, made,
                  acq, counters >>

\* Mutant: callsCopy hands the calls over to the query and empties the log.
callsCopy_return_consume(t) ==
  /\ pc[t] = "callsCopy_loop"
  /\ ~(frame[t].i < callInfo[clients[frame[t].c].callInfo].Calls.len)
  /\ callInfo' = [callInfo EXCEPT ![clients[frame[t].c].callInfo] =
                    [Calls |-> EmptySlice, RWMutex |-> [@.RWMutex EXCEPT !.r = @ - 1]]]
  /\ queries' = Append(queries,
                  query(frame[t].calls, frame[t].c, 1,
                        frame[t].arg.entry # "If", t, frame[t].arg))
  /\ frame' = [frame EXCEPT ![t].q = Len(queries) + 1]
  /\ pc' = [pc EXCEPT ![t] = "prefilter"]
  /\ UNCHANGED << clients, arrays, fatals, parent, made, acq, counters >>

\* The loop ends, the deferred RUnlock runs, callsCopy returns and the entry
\* point builds its query struct.
callsCopy_return(t) ==
  /\ pc[t] = "callsCopy_loop"
  /\ ~(frame[t].i < callInfo[clients[frame[t].c].callInfo].Calls.len)
  /\ callInfo' = [callInfo EXCEPT ![clients[frame[t].c].callInfo].RWMutex.r = @ - 1]
  /\ queries' = Append(queries,
                  query(frame[t].calls, frame[t].c, 1,
                        frame[t].arg.entry # "If", t, frame[t].arg))
  /\ frame' = [frame EXCEPT ![t].q = Len(queries) + 1]
  /\ pc' = [pc EXCEPT ![t] = "prefilter"]
  /\ UNCHANGED << clients, arrays, fatals, parent, made, acq, counters >>

\* Mutant: filter stops at the first call that satisfies pred.
filter_first(calls, pred) ==
  LET kept == SelectSeq(calls, LAMBDA call : pred[call])
  IN  IF kept = << >> THEN kept ELSE << kept[1] >>

\* filter keeps the calls that satisfy pred, in order; pred is a function on
\* the calls of the sequence.
filter(calls, pred) == SelectSeq(calls, LAMBDA call : pred[call])

\* The candidates of query q, as a set: what a predicate is applied to.
Candidates(q) == { queries[q].calls[i] : i \in 1..Len(queries[q].calls) }

\* stackInfo: the serialized calls of the log, joined by line breaks in the
\* message (kept as a sequence here).
stackInfo(ci) == [i \in 1..callInfo[ci].Calls.len |->
                    String(arrays[callInfo[ci].Calls.arr][i])]

\* How RecorderClient.Fatalf of client c ends: it panics without a
\* TestFailer, and otherwise ends as the TestFailer's Fatalf does.
Fatalf_outcome(c) ==
  IF clients[c].test = "nil" THEN "panic"
  ELSE IF clients[c].test = "T" THEN "exit" ELSE "returned"

\* The outcomes of stackInfo's range: the serialized calls, or a fault.
Fault == [fault |-> TRUE, stack |-> << >>]

NoRead == [fault |-> FALSE, stack |-> << >>]

\* The number of calls written into each backing array of the heap arrs.
Fill(arrs) ==
  [a \in 1..Len(arrs) |->
     Cardinality({ i \in 1..Len(arrs[a]) : arrs[a][i] # NilCall })]

\* The arrays of calls that are no backing array of a log: those of the
\* queries, and the copy a callsCopy is filling.
RECURSIVE Flatten(_)
Flatten(ss) == IF ss = << >> THEN << >> ELSE Head(ss) \o Flatten(Tail(ss))

CallBlocks ==
  Flatten([q \in 1..Len(queries) |-> queries[q].blocks])
    \o Flatten([t \in 1..NThreads |->
                  IF pc[t] = "callsCopy_loop" THEN makeBlocks(frame[t].calls)
                  ELSE << >>])

\* The runs of k blocks that may lie behind an array of n calls in the
\* memory of its size class: k different ones of the blocks of n calls.
Neighbours(blocks, n, k) ==
  { o \in [1..k -> { y \in 1..Len(blocks) : Len(blocks[y]) = n }] :
      \A i, j \in 1..k : o[i] = o[j] => i = j }

\* What the range of stackInfo may yield for the slice header hdr on the
\* heap arrs of backing arrays, others being the other arrays of calls in
\* memory; fill tells the calls each backing array held when Fatalf was
\* entered.  The range has no bounds to check against: it takes hdr.len
\* interface values from the address hdr.arr on and calls String on each.
\*  - No pointer (a nil slice, or the empty slice of Reset) with a length:
\*    the values are not there, a fault.
\*  - An element of the array that is not written is a nil interface, on
\*    which String faults.  One written since Fatalf was entered is written
\*    concurrently with the read, which may see it or not.
\*  - Beyond the array lies whatever the allocator put into the memory of
\*    the size class: other arrays of calls (backing arrays that a log has
\*    or had, the copy a query was made from, the arrays filter built),
\*    whose calls String serializes; or memory that is free, or an object
\*    that is no array of calls (an EventCall, the strings of a dump), or
\*    the end of the span: no interface value, a fault.
ReadStack(arrs, others, hdr, fill) ==
  IF hdr.len = 0 THEN { NoRead }
  ELSE IF hdr.arr = 0 THEN { Fault }
  ELSE
    LET X         == arrs[hdr.arr]
        blocks    == [y \in 1..Len(arrs) |-> IF y = hdr.arr THEN << >> ELSE arrs[y]]
                        \o others
        inside    == IF hdr.len < Len(X) THEN hdr.len ELSE Len(X)
        beyond    == hdr.len - inside
        unwritten == \E i \in 1..inside : X[i] = NilCall
        fresh     == \E i \in 1..inside :
                        hdr.arr > Len(fill) \/ i > fill[hdr.arr]
        elem(o, j) == blocks[o[((j - 1) \div Len(X)) + 1]][((j - 1) % Len(X)) + 1]
        runs      == { o \in Neighbours(blocks, Len(X),
                                        (beyond + Len(X) - 1) \div Len(X)) :
                         \A j \in 1..beyond : elem(o, j) # NilCall }
    IN  (IF unwritten \/ fresh \/ beyond > 0 THEN { Fault } ELSE { })
          \cup (IF unwritten THEN { }
                ELSE { [fault |-> FALSE,
                        stack |-> [i \in 1..hdr.len |->
                                     String(IF i <= inside THEN X[i]
                                            ELSE elem(o, i - inside))]] :
                       o \in runs })

\* What the TestFailer receives from RecorderClient.Fatalf: the format and
\* arguments, then the metrics stack as it was read.
Fatalf_message(format, args, rd) ==
  [format |-> format, args |-> args, stack |-> rd.stack]

\* The words of the slice header that the range of stackInfo loads, and the
\* header before any is loaded (-1: not loaded; the capacity is not read).
StackWords == {"arr", "len"}

NotLoaded == [arr |-> -1, len |-> -1, cap |-> 0]

\* The frame of goroutine t as RecorderClient.Fatalf of client c is entered
\* with a TestFailer set, by operation op (on query q, if any) whose own
\* arguments are args.
Fatalf_frame(op, c, q, args, format, margs) ==
  [Frame(op, c, 0, [args |-> args]) EXCEPT
     !.q = q, !.s = NotLoaded, !.fill = Fill(arrays),
     !.msg = [format |-> format, args |-> margs]]

\* RecorderClient.Fatalf called by the test itself: it panics without a
\* TestFailer, and otherwise goes on to build its message.
Fatalf(t, c, format, args) ==
  /\ pc[t] = "idle"
  /\ IF clients[c].test = "nil"
     THEN /\ frame' = [frame EXCEPT ![t] =
                         [Frame("Fatalf", c, 0, [args |-> args])
                            EXCEPT !.outcome = "panic"]]
          /\ pc' = pc
     ELSE /\ frame' = [frame EXCEPT ![t] =
                         Fatalf_frame("Fatalf", c, 0, args, format, args)]
          /\ pc' = [pc EXCEPT ![t] = "Fatalf"]
  /\ UNCHANGED << clients, callInfo, arrays, queries, fatals, parent, made, acq,
                  counters >>

\* stackInfo inside Fatalf takes no lock.  Its range loads the pointer and
\* the length of c.callInfo.Calls one at a time, in an order the compiler
\* chooses, and other goroutines' stores may come between the two.
stackInfo_load(t, w) ==
  /\ pc[t] = "Fatalf"
  /\ frame[t].s[w] = -1
  /\ frame' = [frame EXCEPT
                 ![t].s[w] = callInfo[clients[frame[t].c].callInfo].Calls[w]]
  /\ UNCHANGED << clients, callInfo, arrays, queries, pc, fatals, parent, made,
                  acq, counters >>

\* The range of stackInfo runs over the header loaded, and the message goes
\* to the TestFailer, unless the range faults.  The operation ends as the
\* TestFailer's Fatalf does; a chain whose step does not return is over.
Fatalf_report(t) ==
  /\ pc[t] = "Fatalf"
  /\ \A w \in StackWords : frame[t].s[w] # -1
  /\ \E rd \in ReadStack(arrays, CallBlocks, frame[t].s, frame[t].fill) :
        LET f   == frame[t]
            out == IF rd.fault THEN "panic" ELSE Fatalf_outcome(f.c)
        IN  /\ fatals' = IF out # "panic"
                         THEN Append(fatals,
                                [test |-> clients[f.c].test, q |-> f.q,
                                 op |-> f.op,
                                 step |-> IF f.q = 0 THEN 0 ELSE queries[f.q].nsteps,
                                 msg |-> Fatalf_message(f.msg.format, f.msg.args, rd),
                                 mutex |-> callInfo[clients[f.c].callInfo].RWMutex])
                         ELSE fatals
            /\ queries' = IF f.q = 0 THEN queries
                          ELSE [queries EXCEPT ![f.q].done = @ \/ out # "returned"]
            /\ frame' = [frame EXCEPT ![t] =
                           [Frame(f.op, f.c, 0, f.arg) EXCEPT !.q = f.q, !.outcome = out]]
  /\ pc' = [pc EXCEPT ![t] = "idle"]
  /\ UNCHANGED << clients, callInfo, arrays, parent, made, acq, counters >>

\* A chain step of goroutine t on query q is either the entry point's own
\* pre-filter or a later call of the chain.
StepEnabled(t, q, op, arg) ==
  \/ /\ pc[t] = "prefilter"
     /\ frame[t].q = q
     /\ op = (IF frame[t].arg.entry = "ExpectContains" THEN "Contains" ELSE "ID")
     /\ arg = frame[t].arg.arg
  \/ /\ pc[t] = "idle"
     /\ q \in 1..Len(queries)
     /\ queries[q].owner = t
     /\ ~queries[q].done

\* Mutant: a failing step ends the chain and tells the reporter nothing.
StepEnd_silent(t, q, op, qn, fails, format, args, viaq, terminal) ==
  /\ queries' = [queries EXCEPT ![q] =
                   [qn EXCEPT !.nsteps = @ + 1, !.trace = Append(@, op),
                              !.args = Append(@, args),
                              !.done = terminal \/ fails]]
  /\ frame' = [frame EXCEPT ![t] =
                 [Frame(op, qn.test, 0, [args |-> args]) EXCEPT !.q = q, !.outcome = "returned"]]
  /\ pc' = [pc EXCEPT ![t] = "idle"]
  /\ UNCHANGED << clients, callInfo, arrays, fatals, parent, made, acq, counters >>

\* The end of a step: qn is the query after the step's own writes; when
\* fails, format and args go to q.test.Fatalf, through q.fatalf (which adds
\* the history) when viaq.  Fatalf panics at once without a TestFailer, and
\* otherwise the step is over when Fatalf is.
StepEnd(t, q, op, qn, fails, format, args, viaq, terminal) ==
  LET c       == qn.test
      reports == fails /\ clients[c].test # "nil"
      out     == IF ~fails THEN "returned"
                 ELSE IF reports THEN "running" ELSE "panic"
  IN  /\ queries' = [queries EXCEPT ![q] =
                       [qn EXCEPT !.nsteps = @ + 1, !.trace = Append(@, op),
                                  !.args = Append(@, args),
                                  !.done = terminal \/ out = "panic"]]
      /\ frame' = [frame EXCEPT ![t] =
                     IF reports
                     THEN IF viaq
                          THEN Fatalf_frame(op, c, q, args,
                                            format \o <<". Query was '%s'.">>,
                                            args \o << Trim(qn.history, " ") >>)
                          ELSE Fatalf_frame(op, c, q, args, format, args)
                     ELSE [Frame(op, c, 0, [args |-> args])
                             EXCEPT !.q = q, !.outcome = out]]
      /\ pc' = [pc EXCEPT ![t] = IF reports THEN "Fatalf" ELSE "idle"]
      /\ UNCHANGED << clients, callInfo, arrays, fatals, parent, made, acq,
                      counters >>

\* Mutant: the minimum is checked whether or not checkMin is set.
belowMin_unchecked(qn) == Len(qn.calls) < qn.minCalls

\* Mutant: a filter fails only when no call is left.
belowMin_empty(qn) == qn.checkMin /\ Len(qn.calls) = 0

\* The check that ends each filter: are fewer calls left than the minimum?
belowMin(qn) == qn.checkMin /\ Len(qn.calls) < qn.minCalls

\* A filter step: the history grows by hist, the calls are filtered by pred,
\* and the minimum is checked when checkMin.
FilterStep(t, q, op, hist, pred, format, args, viaq) ==
  \E qn \in { [queries[q] EXCEPT !.history = @ \o hist,
                                 !.calls = filter(@, pred),
                                 !.blocks = @ \o appendBlocks(filter(queries[q].calls, pred), 0)] } :
     StepEnd(t, q, op, qn, belowMin(qn), format, args, viaq, FALSE)

Contains(t, q, component) ==
  /\ StepEnabled(t, q, "Contains", component)
  /\ FilterStep(t, q, "Contains",
                <<" ", "c", "o", "n", "t", "a", "i", "n", "s", "(">> \o component \o <<")">>,
                [call \in Candidates(q) |-> Contains_(String(call), component)],
                <<"Expected metric or event to contain '%s'">>, << component >>,
                FALSE)

\* Mutant: ID compares the names of metrics and lets every event through.
ID_pred_anyEvent(call, id) ==
  \/ call.type = "MetricCall" /\ call.Name = id
  \/ call.type = "EventCall"

ID_pred(call, id) ==
  \/ call.type = "MetricCall" /\ call.Name = id
  \/ call.type = "EventCall" /\ call.Event.Title = id

ID(t, q, id) ==
  /\ StepEnabled(t, q, "ID", id)
  /\ FilterStep(t, q, "ID", <<" ", "i", "d", "(">> \o id \o <<")">>,
                [call \in Candidates(q) |-> ID_pred(call, id)],
                <<"Expected metric or event with ID '%s'">>, << id >>, TRUE)

\* Mutant: Tag is satisfied by the key alone.
Tag_pred_keyOnly(call, name, value) ==
  /\ call.type \in {"MetricCall", "EventCall"}
  /\ name \in DOMAIN call.TagMap

Tag_pred(call, name, value) ==
  /\ call.type \in {"MetricCall", "EventCall"}
  /\ name \in DOMAIN call.TagMap
  /\ call.TagMap[name] = value

Tag(t, q, name, value) ==
  /\ StepEnabled(t, q, "Tag", << name, value >>)
  /\ FilterStep(t, q, "Tag",
                <<" ", "t", "a", "g", "(">> \o name \o <<",", " ">> \o value \o <<")">>,
                [call \in Candidates(q) |-> Tag_pred(call, name, value)],
                <<"Expected tag '%s' with value '%s'">>, << name, value >>, TRUE)

TagName_pred(call, name) ==
  /\ call.type \in {"MetricCall", "EventCall"}
  /\ name \in DOMAIN call.TagMap

TagName(t, q, name) ==
  /\ StepEnabled(t, q, "TagName", name)
  /\ FilterStep(t, q, "TagName", <<" ", "t", "a", "g", "(">> \o name \o <<")">>,
                [call \in Candidates(q) |-> TagName_pred(call, name)],
                <<"Expected tag '%s'">>, << name >>, TRUE)

Text_pred(call, text) == call.type = "EventCall" /\ call.Event.Text = text

\* fmt's %10s: padded with spaces on the left to ten characters.
Pad10(s) == [i \in 1..(10 - Len(s)) |-> " "] \o s

Text(t, q, text) ==
  /\ StepEnabled(t, q, "Text", text)
  /\ FilterStep(t, q, "Text", <<" ", "t", "e", "x", "t", "(">> \o Pad10(text) \o <<")">>,
                [call \in Candidates(q) |-> Text_pred(call, text)],
                <<"Expected event text '%v'">>, << text >>, TRUE)

\* fmt's %v of the value handed to Value.
FmtValue(value) ==
  IF value.kind = "int64" THEN FmtInt(value.v)
  ELSE IF value.kind = "float64" THEN FmtFloat(value.v)
  ELSE IF value.kind = "Duration" THEN Duration_String(value.v)
  ELSE value.v

\* Mutant: Value compares the metrics and lets every event through.
Value_pred_keepEvents(call, value) ==
  call.type = "MetricCall" => call.Value = toFloat64(value).f

Value_pred(call, value) ==
  call.type = "MetricCall" /\ call.Value = toFloat64(value).f

\* Value: toFloat64 runs inside the predicate, for a MetricCall only, so a
\* value that does not convert panics when the filter meets a MetricCall.
Value(t, q, value) ==
  /\ StepEnabled(t, q, "Value", value)
  /\ LET hist == <<" ", "v", "a", "l", "u", "e", "(">> \o FmtValue(value) \o <<")">>
     IN  IF toFloat64(value).panic
            /\ \E i \in 1..Len(queries[q].calls) : queries[q].calls[i].type = "MetricCall"
         THEN /\ queries' = [queries EXCEPT ![q].history = @ \o hist,
                                            ![q].nsteps = @ + 1,
                                            ![q].trace = Append(@, "Value"),
                                            ![q].args = Append(@, << value >>),
                                            ![q].done = TRUE]
              /\ frame' = [frame EXCEPT ![t] =
                             [Frame("Value", queries[q].test, 0, [args |-> << value >>])
                                EXCEPT !.q = q, !.outcome = "panic"]]
              /\ pc' = [pc EXCEPT ![t] = "idle"]
              /\ UNCHANGED << clients, callInfo, arrays, fatals, parent, made,
                              acq, counters >>
         ELSE FilterStep(t, q, "Value", hist,
                         [call \in Candidates(q) |-> Value_pred(call, value)],
                         <<"Expected metric value '%v'">>, << value >>, TRUE)

\* Rate is not among the filters of export_test.go; TestRecorderWithRate
\* calls it.  It is what the specification says of it: a filter like the
\* others that keeps only the MetricCalls whose rate equals rate.
Rate_pred(call, rate) == call.type = "MetricCall" /\ call.Rate = rate

Rate(t, q, rate) ==
  /\ StepEnabled(t, q, "Rate", rate)
  /\ FilterStep(t, q, "Rate", <<" ", "r", "a", "t", "e", "(">> \o FmtRate(rate) \o <<")">>,
                [call \in Candidates(q) |-> Rate_pred(call, rate)],
                <<"Expected metric rate '%v'">>, << rate >>, TRUE)

\* Mutant: Accept fails also when exactly the minimum is left.
Accept_check_offByOne(t, q, op, qn, terminal) ==
  StepEnd(t, q, op, qn, Len(qn.calls) <= qn.minCalls,
          <<"Expected at least %d calls but have none">>, << qn.minCalls >>,
          FALSE, terminal)

\* Mutant: Accept fails only when no call is left.
Accept_check_empty(t, q, op, qn, terminal) ==
  StepEnd(t, q, op, qn, Len(qn.calls) = 0,
          <<"Expected at least %d calls but have none">>, << qn.minCalls >>,
          FALSE, terminal)

\* The check Accept makes of query struct qn, as the end of step op.
Accept_check(t, q, op, qn, terminal) ==
  IF Len(qn.calls) = 0
  THEN StepEnd(t, q, op, qn, Len(qn.calls) < qn.minCalls,
               <<"Expected at least %d calls but have none">>, << qn.minCalls >>,
               FALSE, terminal)
  ELSE StepEnd(t, q, op, qn, Len(qn.calls) < qn.minCalls,
               <<"Expected at least %d calls but only have '%s'">>,
               << qn.minCalls, [i \in 1..Len(qn.calls) |-> String(qn.calls[i])] >>,
               TRUE, terminal)

Accept(t, q) ==
  /\ StepEnabled(t, q, "Accept", 0)
  /\ Accept_check(t, q, "Accept", queries[q], TRUE)

\* Mutant: Reject fails when any call is left, whatever the minimum.
Reject_anyCall(t, q) ==
  /\ StepEnabled(t, q, "Reject", 0)
  /\ StepEnd(t, q, "Reject", queries[q], Len(queries[q].calls) >= 1,
             <<"Expected fewer than %d matching metrics but have '%s'">>,
             << queries[q].minCalls,
                [i \in 1..Len(queries[q].calls) |-> String(queries[q].calls[i])] >>,
             TRUE, TRUE)

Reject(t, q) ==
  /\ StepEnabled(t, q, "Reject", 0)
  /\ StepEnd(t, q, "Reject", queries[q],
             Len(queries[q].calls) >= queries[q].minCalls,
             <<"Expected fewer than %d matching metrics but have '%s'">>,
             << queries[q].minCalls,
                [i \in 1..Len(queries[q].calls) |-> String(queries[q].calls[i])] >>,
             TRUE, TRUE)

\* Mutant: MinTimes sets the minimum and checks nothing.
MinTimes_noCheck(t, q, num) ==
  /\ StepEnabled(t, q, "MinTimes", num)
  /\ StepEnd(t, q, "MinTimes",
             [queries[q] EXCEPT
                !.history = @ \o <<" ", "m", "i", "n", "T", "i", "m", "e", "s", "(">>
                              \o FmtInt(num) \o <<")">>,
                !.minCalls = num, !.mins = Append(@, num)],
             FALSE, << >>, << >>, FALSE, FALSE)

\* Mutant: MinTimes raises the minimum and never lowers it.
MinTimes_raiseOnly(t, q, num) ==
  /\ StepEnabled(t, q, "MinTimes", num)
  /\ LET qn == [queries[q] EXCEPT
                  !.history = @ \o <<" ", "m", "i", "n", "T", "i", "m", "e", "s", "(">>
                                \o FmtInt(num) \o <<")">>,
                  !.minCalls = IF num > @ THEN num ELSE @,
                  !.mins = Append(@, num)]
     IN  IF qn.checkMin
         THEN Accept_check(t, q, "MinTimes", qn, FALSE)
         ELSE StepEnd(t, q, "MinTimes", qn, FALSE, << >>, << >>, FALSE, FALSE)

MinTimes(t, q, num) ==
  /\ StepEnabled(t, q, "MinTimes", num)
  /\ LET qn == [queries[q] EXCEPT
                  !.history = @ \o <<" ", "m", "i", "n", "T", "i", "m", "e", "s", "(">>
                                \o FmtInt(num) \o <<")">>,
                  !.minCalls = num, !.mins = Append(@, num)]
     IN  IF qn.checkMin
         THEN Accept_check(t, q, "MinTimes", qn, FALSE)
         ELSE StepEnd(t, q, "MinTimes", qn, FALSE, << >>, << >>, FALSE, FALSE)

query_GetCalls(q) == queries[q].calls

\* ExpectEmpty up to its call of RLock.
ExpectEmpty(t, c) ==
  /\ pc[t] = "idle"
  /\ nqueries' = nqueries + 1
  /\ frame' = [frame EXCEPT ![t] = Frame("ExpectEmpty", c, 0, NoArgs)]
  /\ pc' = [pc EXCEPT ![t] = "RLock"]
  /\ UNCHANGED << clients, callInfo, arrays, queries, fatals, parent, made, acq,
                  nresets, nreads, gets, datadog, multi,
                  tagmaps >>

\* Mutant: ExpectEmpty tolerates a log of one call.
ExpectEmpty_check_moreThanOne(t) ==
  /\ pc[t] = "ExpectEmpty"
  /\ LET c     == frame[t].c
         fails == callInfo[clients[c].callInfo].Calls.len > 1
     IN  \E rd \in (IF fails /\ clients[c].test # "nil"
                    THEN ReadStack(arrays, CallBlocks, callInfo[clients[c].callInfo].Calls,
                                   Fill(arrays))
                    ELSE { NoRead }) :
         LET out == IF ~fails THEN "returned"
                    ELSE IF rd.fault THEN "panic" ELSE Fatalf_outcome(c)
         IN  /\ fatals' = IF fails /\ out # "panic"
                          THEN Append(fatals,
                                 [test |-> clients[c].test, q |-> 0,
                                  op |-> "ExpectEmpty", step |-> 1,
                                  msg |-> Fatalf_message(
                                            <<"Expected empty metrics call stack.">>,
                                            << >>, rd),
                                  mutex |-> callInfo[clients[c].callInfo].RWMutex])
                          ELSE fatals
             /\ frame' = [frame EXCEPT ![t].outcome = out]
  /\ pc' = [pc EXCEPT ![t] = "RUnlock"]
  /\ UNCHANGED << clients, callInfo, arrays, queries, parent, made, acq, counters >>

\* The length is tested and, when it is not 0, c.Fatalf is called: the read
\* lock is held, its release being deferred, so no store into the log comes
\* between the loads of stackInfo, which reads the log as it is.  A
\* TestFailer receives the message and the goroutine is inside it until
\* ExpectEmpty_return.
ExpectEmpty_check(t) ==
  /\ pc[t] = "ExpectEmpty"
  /\ LET c     == frame[t].c
         fails == callInfo[clients[c].callInfo].Calls.len > 0
     IN  \E rd \in (IF fails /\ clients[c].test # "nil"
                    THEN ReadStack(arrays, CallBlocks, callInfo[clients[c].callInfo].Calls,
                                   Fill(arrays))
                    ELSE { NoRead }) :
         LET out == IF ~fails THEN "returned"
                    ELSE IF rd.fault THEN "panic" ELSE Fatalf_outcome(c)
         IN  /\ fatals' = IF fails /\ out # "panic"
                          THEN Append(fatals,
                                 [test |-> clients[c].test, q |-> 0,
                                  op |-> "ExpectEmpty", step |-> 1,
                                  msg |-> Fatalf_message(
                                            <<"Expected empty metrics call stack.">>,
                                            << >>, rd),
                                  mutex |-> callInfo[clients[c].callInfo].RWMutex])
                          ELSE fatals
             /\ frame' = [frame EXCEPT ![t].outcome = out]
  /\ pc' = [pc EXCEPT ![t] = "RUnlock"]
  /\ UNCHANGED << clients, callInfo, arrays, queries, parent, made, acq, counters >>

\* Mutant: RUnlock is the last statement and not deferred, so it runs only
\* when Fatalf returns.
ExpectEmpty_return_notDeferred(t) ==
  /\ pc[t] = "RUnlock"
  /\ callInfo' = IF frame[t].outcome = "returned"
                 THEN [callInfo EXCEPT ![clients[frame[t].c].callInfo].RWMutex.r = @ - 1]
                 ELSE callInfo
  /\ pc' = [pc EXCEPT ![t] = "idle"]
  /\ UNCHANGED << clients, arrays, queries, frame, fatals, parent, made, acq,
                  counters >>

\* The deferred RUnlock runs, however Fatalf ended, and ExpectEmpty is over.
ExpectEmpty_return(t) ==
  /\ pc[t] = "RUnlock"
  /\ callInfo' = [callInfo EXCEPT ![clients[frame[t].c].callInfo].RWMutex.r = @ - 1]
  /\ pc' = [pc EXCEPT ![t] = "idle"]
  /\ UNCHANGED << clients, arrays, queries, frame, fatals, parent, made, acq,
                  counters >>

\* RecorderClient.GetCalls: the slice header of the log, as it is.
GetCalls(c) == callInfo[clients[c].callInfo].Calls

\* GetCalls as a goroutine runs it.  It takes no lock, and the slice header
\* it returns is three words (pointer, length, capacity) that are loaded one
\* at a time, in an order the compiler chooses; -1 marks a word not loaded
\* yet.  The frame keeps the number of write-lock acquisitions made before
\* the call and whether a writer held the lock at a load.
Words == {"arr", "len", "cap"}

GetCalls_begin(t, c) ==
  /\ pc[t] = "idle"
  /\ frame' = [frame EXCEPT ![t] =
                 [Frame("GetCalls", c, 0, NoArgs) EXCEPT
                    !.s = [arr |-> -1, len |-> -1, cap |-> -1],
                    !.nacq = Len(acq),
                    !.ret = callInfo[clients[c].callInfo].RWMutex.w]]
  /\ pc' = [pc EXCEPT ![t] = "GetCalls"]
  /\ UNCHANGED << clients, callInfo, arrays, queries, fatals, parent, made, acq,
                  counters >>

GetCalls_load(t, w) ==
  /\ pc[t] = "GetCalls"
  /\ frame[t].s[w] = -1
  /\ frame' = [frame EXCEPT
                 ![t].s[w] = callInfo[clients[frame[t].c].callInfo].Calls[w],
                 ![t].ret = @ \/ callInfo[clients[frame[t].c].callInfo].RWMutex.w]
  /\ UNCHANGED << clients, callInfo, arrays, queries, pc, fatals, parent, made,
                  acq, counters >>

\* The length of the backing array a slice header points to.
arrayLen(arrs, s) == IF s.arr = 0 THEN 0 ELSE Len(arrs[s.arr])

\* GetCalls returns the header it loaded.  Recorded with it: the caller, the
\* log, whether the call overlapped a writer's critical section (raced),
\* and the elements the returned slice has at the return (none are taken
\* when the header reaches beyond its array).
GetCalls_return(t) ==
  /\ pc[t] = "GetCalls"
  /\ \A w \in Words : frame[t].s[w] # -1
  /\ LET s  == frame[t].s
         ci == clients[frame[t].c].callInfo
     IN  gets' = Append(gets,
                  [t |-> t, ci |-> ci, s |-> s,
                   raced |-> frame[t].ret \/ Len(acq) # frame[t].nacq,
                   log |-> Elems(arrays, callInfo[ci].Calls),
                   elems |-> IF s.len <= arrayLen(arrays, s)
                             THEN Elems(arrays, s) ELSE << >>])
  /\ frame' = [frame EXCEPT ![t].outcome = "returned"]
  /\ pc' = [pc EXCEPT ![t] = "idle"]
  /\ UNCHANGED << clients, callInfo, arrays, queries, fatals, parent, made, acq,
                  nresets, nreads, nqueries, datadog, multi,
                  tagmaps >>

\* ----------------------------------------------------------- DataDogClient
\* A DataDogClient struct: the rate and the tags, a []string.  parent is a
\* history field: the call that made the client.
DataDogClient(rate, tags, from) == [rate |-> rate, tags |-> tags, parent |-> from]

\* The tags of DataDogClient c, in the order of its slice.
DataDogTags(c) == Elems(datadog.arrays, datadog.clients[c].tags)

\* The orders in which a range over a map may visit its keys.
RangeOrders(tagMap) ==
  { o \in [1..Cardinality(DOMAIN tagMap) -> DOMAIN tagMap] :
      \A i, j \in DOMAIN o : o[i] = o[j] => i = j }

\* Mutant: an entry of the original whose key is in newTags is replaced.
cloneTagsWithMap_overwrite(arrs, original, newTags, order) ==
  LET kept     == SelectSeq(Elems(arrs, original),
                            LAMBDA e : \A k \in DOMAIN newTags :
                               SubSeq(e, 1, Len(k) + 1) # k \o <<":">>)
      combined == kept \o [i \in 1..Len(order) |-> buildTag(order[i], newTags[order[i]])]
  IN  [arrays |-> Append(arrs, combined),
       slice  |-> [arr |-> Len(arrs) + 1, len |-> Len(combined),
                   cap |-> Len(combined)]]

\* cloneTagsWithMap: a fresh array of len(original)+len(newTags) strings
\* gets the original's strings, then one key:value string per entry of
\* newTags, in the order the range visits the map.
cloneTagsWithMap(arrs, original, newTags, order) ==
  LET combined == [i \in 1..(original.len + Len(order)) |->
                     IF i <= original.len THEN arrs[original.arr][i]
                     ELSE buildTag(order[i - original.len],
                                   newTags[order[i - original.len]])]
  IN  [arrays |-> Append(arrs, combined),
       slice  |-> [arr |-> Len(arrs) + 1, len |-> Len(combined),
                   cap |-> Len(combined)]]

\* resolveOptions: the options are applied in order, and the first that
\* returns an error ends it.  An option is "WithoutTelemetry", "WithStatsd"
\* (a statsd client of the caller's) or "invalid" (an Option of the caller's
\* that returns an error).
resolveOptions(options) ==
  [err    |-> \E i \in 1..Len(options) : options[i] = "invalid",
   Statsd |-> \E i \in 1..Len(options) : options[i] = "WithStatsd"]

\* NewDataDogClient: log.Panic when an option fails, and when no statsd
\* client is handed over and statsd.New cannot make one for the address
\* (addressOk tells whether it can); otherwise a client with the rate 1.0
\* and no tags.
NewDataDogClient(t, options, addressOk) ==
  /\ pc[t] = "idle"
  /\ LET o == resolveOptions(options)
     IN  IF o.err \/ (~o.Statsd /\ ~addressOk)
         THEN /\ datadog' = datadog
              /\ frame' = [frame EXCEPT ![t] =
                             [Frame("NewDataDogClient", 0, 0, NoArgs)
                                EXCEPT !.outcome = "panic"]]
         ELSE /\ datadog' = [datadog EXCEPT !.clients =
                               Append(@, DataDogClient(RateOne, EmptySlice,
                                                       [c |-> 0, op |-> "NewDataDogClient",
                                                        arg |-> 0]))]
              /\ frame' = [frame EXCEPT ![t] =
                             [Frame("NewDataDogClient", 0, 0, NoArgs)
                                EXCEPT !.outcome = "returned"]]
  /\ UNCHANGED << clients, callInfo, arrays, queries, pc, fatals, parent,
                  made, acq, nresets, nreads, nqueries, gets, multi,
                  tagmaps >>

DataDogClient_WithRate(t, c, rate) ==
  /\ pc[t] = "idle"
  /\ datadog' = [datadog EXCEPT !.clients =
                   Append(@, DataDogClient(rate, datadog.clients[c].tags,
                                           [c |-> c, op |-> "WithRate",
                                            arg |-> rate]))]
  /\ UNCHANGED << clients, callInfo, arrays, queries, pc, frame, fatals, parent,
                  made, acq, nresets, nreads, nqueries, gets, multi,
                  tagmaps >>

\* WithoutTelemetry: a client with the receiver's rate and the receiver's
\* tags slice, around a clone of the statsd client; when statsd cannot make
\* the clone, log.Panic.
DataDogClient_WithoutTelemetry(t, c) ==
  /\ pc[t] = "idle"
  /\ \/ /\ datadog' = [datadog EXCEPT !.clients =
                          Append(@, DataDogClient(datadog.clients[c].rate,
                                                  datadog.clients[c].tags,
                                                  [c |-> c, op |-> "WithoutTelemetry",
                                                   arg |-> 0]))]
        /\ frame' = [frame EXCEPT ![t] =
                       [Frame("WithoutTelemetry", c, 0, NoArgs) EXCEPT !.outcome = "returned"]]
     \/ /\ datadog' = datadog
        /\ frame' = [frame EXCEPT ![t] =
                       [Frame("WithoutTelemetry", c, 0, NoArgs) EXCEPT !.outcome = "panic"]]
  /\ UNCHANGED << clients, callInfo, arrays, queries, pc, fatals, parent,
                  made, acq, nresets, nreads, nqueries, gets, multi,
                  tagmaps >>

DataDogClient_WithTags(t, c, tags) ==
  /\ pc[t] = "idle"
  /\ \E order \in RangeOrders(tags) :
        LET r == cloneTagsWithMap(datadog.arrays, datadog.clients[c].tags, tags, order)
        IN  datadog' = [clients |-> Append(datadog.clients,
                                     DataDogClient(datadog.clients[c].rate, r.slice,
                                                   [c |-> c, op |-> "WithTags",
                                                    arg |-> tags])),
                        arrays  |-> r.arrays]
  /\ UNCHANGED << clients, callInfo, arrays, queries, pc, frame, fatals, parent,
                  made, acq, nresets, nreads, nqueries, gets, multi,
                  tagmaps >>

RECURSIVE sort_Strings(_)
\* sort.Strings: the strings of a slice in ascending order, each as often as
\* it was there.
sort_Strings(strs) ==
  IF strs = << >> THEN << >>
  ELSE LET i == CHOOSE i \in 1..Len(strs) :
                   \A j \in 1..Len(strs) : ~StrLess(strs[j], strs[i])
       IN  << strs[i] >> \o sort_Strings(SubSeq(strs, 1, i - 1)
                                          \o SubSeq(strs, i + 1, Len(strs)))

\* Tags sorts c.tags where they are and returns the slice.
DataDogClient_Tags(t, c) ==
  /\ pc[t] = "idle"
  /\ LET s      == datadog.clients[c].tags
         sorted == sort_Strings(Elems(datadog.arrays, s))
     IN  /\ datadog' = IF s.len = 0 THEN datadog
                       ELSE [datadog EXCEPT !.arrays[s.arr] =
                               [i \in 1..Len(@) |-> IF i <= s.len THEN sorted[i] ELSE @[i]]]
         /\ frame' = [frame EXCEPT ![t] =
                        [Frame("Tags", c, 0, NoArgs) EXCEPT !.ret = sorted,
                                                       !.outcome = "returned"]]
  /\ UNCHANGED << clients, callInfo, arrays, queries, pc, fatals, parent,
                  made, acq, nresets, nreads, nqueries, gets, multi,
                  tagmaps >>

\* ------------------------------------------------------------- MultiClient
\* A MultiClient struct: clients, the children (RecorderClients here).
\* parent is a history field: the call that made the client.
MultiClient(children, from) == [clients |-> children, parent |-> from]

NewMultiClient(t, children) ==
  /\ pc[t] = "idle"
  /\ MultiCall(t) = 0
  /\ multi' = [multi EXCEPT !.clients =
                 Append(@, MultiClient(children,
                                       [c |-> 0, op |-> "NewMultiClient", arg |-> 0]))]
  /\ UNCHANGED << clients, callInfo, arrays, queries, pc, frame, fatals, parent,
                  made, acq, nresets, nreads, nqueries, gets, datadog,
                  tagmaps >>

\* WithTags: a new MultiClient whose children are the children's WithTags
\* clones, appended one by one in the order of the children.
MultiClient_WithTags(t, m, tags) ==
  /\ pc[t] = "idle"
  /\ MultiCall(t) = 0
  /\ LET cs == multi.clients[m].clients
     IN  /\ clients' = clients \o [i \in 1..Len(cs) |-> WithTags_client(cs[i], tags)]
         /\ parent' = parent \o [i \in 1..Len(cs) |->
                                   [c |-> cs[i], op |-> "WithTags", arg |-> tags]]
         /\ multi' = [multi EXCEPT !.clients =
                        Append(@, MultiClient([i \in 1..Len(cs) |-> Len(clients) + i],
                                              [c |-> m, op |-> "WithTags",
                                               arg |-> tags]))]
  /\ UNCHANGED << callInfo, arrays, queries, pc, frame, fatals, made, acq,
                  nresets, nreads, nqueries, gets, datadog,
                  tagmaps >>

MultiClient_WithRate(t, m, rate) ==
  /\ pc[t] = "idle"
  /\ MultiCall(t) = 0
  /\ LET cs == multi.clients[m].clients
     IN  /\ clients' = clients \o [i \in 1..Len(cs) |-> WithRate_client(cs[i], rate)]
         /\ parent' = parent \o [i \in 1..Len(cs) |->
                                   [c |-> cs[i], op |-> "WithRate", arg |-> rate]]
         /\ multi' = [multi EXCEPT !.clients =
                        Append(@, MultiClient([i \in 1..Len(cs) |-> Len(clients) + i],
                                              [c |-> m, op |-> "WithRate",
                                               arg |-> rate]))]
  /\ UNCHANGED << callInfo, arrays, queries, pc, frame, fatals, made, acq,
                  nresets, nreads, nqueries, gets, datadog,
                  tagmaps >>

\* An operation is invoked on MultiClient m: the range over c.clients
\* begins.  base is the number of recording calls made before it; the
\* children the loop has called are as many as the recording calls whose
\* loop field names this operation.
MultiClient_call(t, m, op, arg) ==
  /\ pc[t] = "idle"
  /\ MultiCall(t) = 0
  /\ multi' = [multi EXCEPT !.calls =
                 Append(@, [t |-> t, m |-> m, op |-> op, arg |-> arg,
                            base |-> Len(made), outcome |-> "running"])]
  /\ UNCHANGED << clients, callInfo, arrays, queries, pc, frame, fatals, parent,
                  made, acq, nresets, nreads, nqueries, gets, datadog,
                  tagmaps >>

MultiClient_Count(t, m, name, value) ==
  MultiClient_call(t, m, "Count", [name |-> name, value |-> value])

MultiClient_Incr(t, m, name) == MultiClient_call(t, m, "Incr", name)

MultiClient_Decr(t, m, name) == MultiClient_call(t, m, "Decr", name)

MultiClient_Gauge(t, m, name, value) ==
  MultiClient_call(t, m, "Gauge", [name |-> name, value |-> value])

MultiClient_Event(t, m, e) == MultiClient_call(t, m, "Event", e)

MultiClient_Timing(t, m, name, value) ==
  MultiClient_call(t, m, "Timing", [name |-> name, value |-> value])

MultiClient_Histogram(t, m, name, value) ==
  MultiClient_call(t, m, "Histogram", [name |-> name, value |-> value])

\* The recording calls the loop of goroutine t has made on the children.
MultiMade(t) ==
  { j \in 1..Len(made) : made[j].loop = MultiCall(t) }

\* Has the child's call that the loop of goroutine t made last panicked?
MultiPanicked(t) ==
  \E j \in MultiMade(t) :
     /\ \A i \in MultiMade(t) : i <= j
     /\ made[j].outcome = "panic"

\* One iteration of the loop: the operation is invoked on the next child,
\* the previous child's call having returned.
MultiClient_forward(t) ==
  /\ MultiCall(t) # 0
  /\ pc[t] = "idle"
  /\ ~MultiPanicked(t)
  /\ LET k  == multi.calls[MultiCall(t)]
         cs == multi.clients[k.m].clients
         i  == Cardinality(MultiMade(t))
     IN  /\ i < Len(cs)
         /\ IF k.op = "Count" THEN Count(t, cs[i + 1], k.arg.name, k.arg.value)
            ELSE IF k.op = "Incr" THEN Incr(t, cs[i + 1], k.arg)
            ELSE IF k.op = "Decr" THEN Decr(t, cs[i + 1], k.arg)
            ELSE IF k.op = "Gauge" THEN Gauge(t, cs[i + 1], k.arg.name, k.arg.value)
            ELSE IF k.op = "Timing" THEN Timing(t, cs[i + 1], k.arg.name, k.arg.value)
            ELSE IF k.op = "Histogram"
                 THEN Histogram(t, cs[i + 1], k.arg.name, k.arg.value)
            ELSE Event(t, cs[i + 1], k.arg)

\* The loop is over and the operation returns, or a child's call panicked
\* and the panic leaves the loop.
MultiClient_return(t) ==
  /\ MultiCall(t) # 0
  /\ pc[t] = "idle"
  /\ LET k  == multi.calls[MultiCall(t)]
         cs == multi.clients[k.m].clients
     IN  /\ MultiPanicked(t) \/ Cardinality(MultiMade(t)) = Len(cs)
         /\ multi' = [multi EXCEPT !.calls[MultiCall(t)].outcome =
                        IF MultiPanicked(t) THEN "panic" ELSE "returned"]
  /\ UNCHANGED << clients, callInfo, arrays, queries, pc, frame, fatals, parent,
                  made, acq, nresets, nreads, nqueries, gets, datadog,
                  tagmaps >>

\* ------------------------------------------------- tag mappings as objects
\* The tag handling of RecorderClient once more, with every map an object
\* of tagmaps.heap: which handle, log entry and variable of the caller
\* refers to which map.  tagmaps.clients[1] is the client NewRecorderClient
\* made, its tagMap nil.
MapOf(heap, m) == IF m = 0 THEN EmptyMap ELSE heap[m]

TagMapsUnchanged ==
  UNCHANGED << clients, callInfo, arrays, queries, pc, fatals, parent, made, acq,
               nresets, nreads, nqueries, gets, datadog, multi >>

\* The caller makes a map, to hand it to WithTags.
MakeMap(t, tags) ==
  /\ pc[t] = "idle"
  /\ tagmaps' = [tagmaps EXCEPT !.heap = Append(@, tags),
                                !.caller = Append(@, Len(tagmaps.heap) + 1)]
  /\ UNCHANGED frame
  /\ TagMapsUnchanged

\* The caller stores into a map of its own: tags[k] = v.
MapStore(t, i, k, v) ==
  /\ pc[t] = "idle"
  /\ LET m == tagmaps.caller[i]
     IN  tagmaps' = [tagmaps EXCEPT !.heap[m] =
                        [x \in (DOMAIN @) \cup {k} |-> IF x = k THEN v ELSE @[x]],
                                   !.stores = @ + 1]
  /\ UNCHANGED frame
  /\ TagMapsUnchanged

\* Mutant: a receiver without tags keeps the map it is handed.
WithTags_maps_keepArgument(t, c, i) ==
  /\ pc[t] = "idle"
  /\ LET h == tagmaps.heap
         combined == combine(MapOf(h, tagmaps.clients[c].tagMap), h[tagmaps.caller[i]])
     IN  IF tagmaps.clients[c].tagMap = 0
         THEN tagmaps' = [tagmaps EXCEPT
                            !.clients = Append(@, [tagMap |-> tagmaps.caller[i],
                                                   parent |-> c])]
         ELSE tagmaps' = [tagmaps EXCEPT
                            !.heap = Append(@, combined),
                            !.clients = Append(@, [tagMap |-> Len(h) + 1, parent |-> c])]
  /\ UNCHANGED frame
  /\ TagMapsUnchanged

\* WithTags: combine makes a map and fills it from the receiver's map and
\* from the argument; the new client refers to it.
WithTags_maps(t, c, i) ==
  /\ pc[t] = "idle"
  /\ LET h == tagmaps.heap
         combined == combine(MapOf(h, tagmaps.clients[c].tagMap), h[tagmaps.caller[i]])
     IN  tagmaps' = [tagmaps EXCEPT
                       !.heap = Append(@, combined),
                       !.clients = Append(@, [tagMap |-> Len(h) + 1, parent |-> c])]
  /\ UNCHANGED frame
  /\ TagMapsUnchanged

\* WithRate: combine is handed an empty map literal and the receiver's map.
WithRate_maps(t, c) ==
  /\ pc[t] = "idle"
  /\ LET h == tagmaps.heap
         combined == combine(EmptyMap, MapOf(h, tagmaps.clients[c].tagMap))
     IN  tagmaps' = [tagmaps EXCEPT
                       !.heap = @ \o << EmptyMap, combined >>,
                       !.clients = Append(@, [tagMap |-> Len(h) + 2, parent |-> c])]
  /\ UNCHANGED frame
  /\ TagMapsUnchanged

\* WithTest: the new client refers to the receiver's map.
WithTest_maps(t, c) ==
  /\ pc[t] = "idle"
  /\ tagmaps' = [tagmaps EXCEPT
                    !.clients = Append(@, [tagMap |-> tagmaps.clients[c].tagMap,
                                           parent |-> c])]
  /\ UNCHANGED frame
  /\ TagMapsUnchanged

\* Mutant: the entry refers to the map of the handle.
logCall_maps_share(t, c) ==
  /\ pc[t] = "idle"
  /\ tagmaps' = [tagmaps EXCEPT
                    !.Calls = Append(@, [type |-> "MetricCall", c |-> c,
                                         TagMap |-> tagmaps.clients[c].tagMap])]
  /\ UNCHANGED frame
  /\ TagMapsUnchanged

\* logCall: tagMapCopy is made and filled from the handle's map, and the
\* MetricCall appended to the log refers to it.
logCall_maps(t, c) ==
  /\ pc[t] = "idle"
  /\ LET h == tagmaps.heap
     IN  tagmaps' = [tagmaps EXCEPT
                       !.heap = Append(@, copyTags(MapOf(h, tagmaps.clients[c].tagMap))),
                       !.Calls = Append(@, [type |-> "MetricCall", c |-> c,
                                            TagMap |-> Len(h) + 1])]
  /\ UNCHANGED frame
  /\ TagMapsUnchanged

\* Event: tagMapCopy is nil; the copying loop panics at its first entry,
\* and without entries the EventCall appended refers to the nil map.
Event_maps(t, c) ==
  /\ pc[t] = "idle"
  /\ IF DOMAIN MapOf(tagmaps.heap, tagmaps.clients[c].tagMap) # {}
     THEN /\ frame' = [frame EXCEPT ![t] =
                         [Frame("Event", c, 0, NoArgs) EXCEPT !.outcome = "panic"]]
          /\ UNCHANGED tagmaps
     ELSE /\ frame' = [frame EXCEPT ![t] =
                         [Frame("Event", c, 0, NoArgs) EXCEPT !.outcome = "returned"]]
          /\ tagmaps' = [tagmaps EXCEPT
                            !.Calls = Append(@, [type |-> "EventCall", c |-> c,
                                                 TagMap |-> 0])]
  /\ TagMapsUnchanged

\* ------------------------------------------------------------ the arguments
Star == <<"*">>
F == <<"f">>
G == <<"g">>
A == <<"a">>
B == <<"b">>
TagA1 == [k \in {A} |-> <<"1">>]
TagA2 == [k \in {A} |-> <<"2">>]
TagA2B2 == [k \in {A, B} |-> <<"2">>]
TagB2 == [k \in {B} |-> <<"2">>]
\* Two keys whose key:value strings are the same, a:b:c.
TagDup == [k \in {A, <<"a", ":", "b">>} |-> IF k = A THEN <<"b", ":", "c">> ELSE <<"c">>]
Ev == [Title |-> F, Text |-> <<"d">>]

\* A call is serialized (fmt.Println(call), or call.String()).  The call has
\* the tags of a handle that got the tags of first, then those of then.
Println(t, call, first, then) ==
  /\ pc[t] = "idle"
  /\ LET c == [call EXCEPT !.TagMap = combine(combine(EmptyMap, first), then)]
     IN  frame' = [frame EXCEPT ![t] =
                     [Frame("String", 0, 0, [first |-> first, then |-> then])
                        EXCEPT !.calls = << c >>,
                               !.ret = String(c),
                               !.outcome = "returned"]]
  /\ UNCHANGED << clients, callInfo, arrays, queries, pc, fatals, parent, made,
                  acq, counters >>

\* The calls and tags that are serialized.
StringMaps == {EmptyMap, TagA1, TagB2, TagA2B2}

StringCalls ==
  { MetricCall(0, name, value, rate, EmptyMap) :
      name \in {F, G}, value \in {1, 5, 0 - 1, 1000000, 0 - 1200000},
      rate \in {RateOne, 1, 5, 0 - 5, 10000001} }
  \cup { EventCall(0, Ev, EmptyMap) }

\* May goroutine t apply one more step to query q, n steps being the most?
MayStep(t, q, n) ==
  \/ pc[t] = "prefilter"
  \/ q <= Len(queries) /\ queries[q].nsteps < n

\* ---------------------------------------------------------- specifications
\* Spec: NThreads goroutines record, reset, read and query concurrently
\* through the handles of one root.
Next ==
  \E t \in Threads :
     \/ \E w \in StackWords : stackInfo_load(t, w)
     \/ Fatalf_report(t)
     \/ RWMutex_Lock(t)
     \/ RWMutex_Unlock(t)
     \/ RWMutex_RLock(t)
     \/ logCall_load(t)
     \/ logCall_store(t)
     \/ Reset_store(t)
     \/ Length_return(t)
     \/ callsCopy_make(t)
     \/ callsCopy_loop(t)
     \/ callsCopy_return(t)
     \/ \E c \in 1..Len(clients) :
           \/ Len(made) < ConcCalls /\ Incr(t, c, F)
           \/ Len(made) < ConcCalls /\ Count(t, c, G, 5)
           \/ nresets < ConcResets /\ Reset(t, c)
           \/ nreads < ConcReads /\ Length(t, c)
           \/ nqueries < ConcQueries /\ If(t, c, F)
           \/ Len(clients) < ConcClients /\ WithTest(t, c, "mock")
     \/ \E q \in 1..(Len(queries) + 1) : pc[t] = "prefilter" /\ ID(t, q, F)
     \/ \E q \in 1..Len(queries) : Reject(t, q)

Spec == Init /\ [][Next]_vars

\* SpecHandles: one goroutine derives handles from up to HRoots roots and
\* records through them.
NextHandles ==
  \E t \in {1} :
     \/ RWMutex_Lock(t)
     \/ RWMutex_Unlock(t)
     \/ logCall_load(t)
     \/ logCall_store(t)
     \/ Event_load(t)
     \/ Event_store(t)
     \/ Reset_store(t)
     \/ Len(clients) < HClients /\ Len(callInfo) < HRoots /\ NewRecorderClient(t)
     \/ \E c \in 1..Len(clients) :
           \/ Len(made) < HCalls /\ Incr(t, c, F)
           \/ Len(made) < HCalls /\ Event(t, c, Ev)
           \/ nresets < HResets /\ Reset(t, c)
           \/ Len(clients) < HClients
                /\ \E tags \in {TagA1, TagA2B2} : WithTags(t, c, tags)
           \/ Len(clients) < HClients /\ WithRate(t, c, 1)
           \/ Len(clients) < HClients /\ WithTest(t, c, "mock")

SpecHandles == Init /\ [][NextHandles]_vars

\* SpecQuery: one goroutine derives handles and records a few calls, then
\* asserts on them with a chain of up to QSteps steps.
NextQuery ==
  \E t \in {1} :
     \/ \E w \in StackWords : stackInfo_load(t, w)
     \/ Fatalf_report(t)
     \/ RWMutex_Lock(t)
     \/ RWMutex_Unlock(t)
     \/ RWMutex_RLock(t)
     \/ logCall_load(t)
     \/ logCall_store(t)
     \/ Event_load(t)
     \/ Event_store(t)
     \/ callsCopy_make(t)
     \/ callsCopy_loop(t)
     \/ callsCopy_return(t)
     \/ ExpectEmpty_check(t)
     \/ ExpectEmpty_return(t)
     \/ \E c \in 1..Len(clients) :
           \/ nqueries = 0 /\ Len(made) < QCalls /\ Incr(t, c, F)
           \/ nqueries = 0 /\ Len(made) < QCalls /\ Event(t, c, Ev)
           \/ nqueries = 0 /\ Len(clients) < QClients /\ WithTags(t, c, TagA1)
           \/ nqueries = 0 /\ Len(clients) < QClients
                /\ \E test \in Tests : WithTest(t, c, test)
           \/ nqueries < QQueries /\ \E id \in {F, G} : Expect(t, c, id)
           \/ nqueries < QQueries /\ ExpectContains(t, c, <<":", "1">>)
           \/ nqueries < QQueries /\ \E id \in {F, Star} : If(t, c, id)
           \/ nqueries < QQueries /\ ExpectEmpty(t, c)
     \/ \E q \in 1..(Len(queries) + 1) :
           /\ MayStep(t, q, QSteps)
           /\ \/ \E id \in {F, G} : ID(t, q, id)
              \/ pc[t] = "prefilter" /\ ID(t, q, Star)
              \/ \E s \in {<<":", "1">>, <<"a", ":", "1">>} : Contains(t, q, s)
              \/ \E v \in {Int64(1), Float64(5)} : Value(t, q, v)
              \/ Text(t, q, <<"d">>)
              \/ Tag(t, q, A, <<"1">>)
              \/ TagName(t, q, A)
              \/ \E n \in 1..2 : MinTimes(t, q, n)
              \/ Accept(t, q)
              \/ Reject(t, q)

SpecQuery == Init /\ [][NextQuery]_vars

\* SpecEquiv: one goroutine records a few calls, then runs Expect(id) and
\* If(id).Accept(), in either order, on the log.
NextEquiv ==
  \E t \in {1} :
     \/ \E w \in StackWords : stackInfo_load(t, w)
     \/ Fatalf_report(t)
     \/ RWMutex_Lock(t)
     \/ RWMutex_Unlock(t)
     \/ RWMutex_RLock(t)
     \/ logCall_load(t)
     \/ logCall_store(t)
     \/ Event_load(t)
     \/ Event_store(t)
     \/ callsCopy_make(t)
     \/ callsCopy_loop(t)
     \/ callsCopy_return(t)
     \/ \E c \in 1..Len(clients) :
           \/ nqueries = 0 /\ Len(made) < ECalls /\ \E id \in {F, G} : Incr(t, c, id)
           \/ nqueries = 0 /\ Len(made) < ECalls /\ Event(t, c, Ev)
           \/ nqueries = 0 /\ Len(clients) < EClients
                /\ \E test \in Tests : WithTest(t, c, test)
           \/ /\ \A q \in 1..Len(queries) : queries[q].entry # "Expect"
              /\ \E id \in {F, G} : Expect(t, c, id)
           \/ /\ \A q \in 1..Len(queries) : queries[q].entry # "If"
              /\ \E id \in {F, G} : If(t, c, id)
     \/ \E q \in 1..(Len(queries) + 1) :
           \/ pc[t] = "prefilter" /\ \E id \in {F, G} : ID(t, q, id)
           \/ /\ q <= Len(queries)
              /\ queries[q].entry = "If" /\ queries[q].nsteps = 1
              /\ Accept(t, q)

SpecEquiv == Init /\ [][NextEquiv]_vars

\* SpecReads: NThreads goroutines record and reset through one handle while
\* GetCalls is called.
NextReads ==
  \E t \in Threads :
     \/ RWMutex_Lock(t)
     \/ RWMutex_Unlock(t)
     \/ logCall_load(t)
     \/ logCall_store(t)
     \/ Reset_store(t)
     \/ \E w \in Words : GetCalls_load(t, w)
     \/ GetCalls_return(t)
     \/ \E c \in 1..Len(clients) :
           \/ Len(made) < RCalls /\ Incr(t, c, F)
           \/ nresets < RResets /\ Reset(t, c)
           \/ Len(gets) + Cardinality({u \in Threads : pc[u] = "GetCalls"}) < RGets
                /\ GetCalls_begin(t, c)

SpecReads == Init /\ [][NextReads]_vars

\* SpecFatalf: the test calls Fatalf itself, through the root and through
\* handles with a TestFailer, while the goroutines record and reset.
NextFatalf ==
  \E t \in Threads :
     \/ \E w \in StackWords : stackInfo_load(t, w)
     \/ Fatalf_report(t)
     \/ RWMutex_Lock(t)
     \/ RWMutex_Unlock(t)
     \/ logCall_load(t)
     \/ logCall_store(t)
     \/ Reset_store(t)
     \/ \E c \in 1..Len(clients) :
           \/ \E name \in {F, G} : c = 1 /\ Len(made) < XCalls /\ Incr(t, c, name)
           \/ c = 1 /\ nresets < XResets /\ Reset(t, c)
           \/ \E test \in Tests :
                 c = 1 /\ Len(clients) < XClients /\ Len(made) = 0 /\ WithTest(t, c, test)
           \/ Len(fatals) < XFatals /\ frame[t].op # "Fatalf"
                /\ Fatalf(t, c, <<"Expected values '1, 2' in order.">>, << >>)

SpecFatalf == Init /\ [][NextFatalf]_vars

\* SpecLength: one goroutine records and resets through the handles of one
\* root and reads the log with Length and GetCalls.
NextLength ==
  \E t \in {1} :
     \/ RWMutex_Lock(t)
     \/ RWMutex_Unlock(t)
     \/ RWMutex_RLock(t)
     \/ logCall_load(t)
     \/ logCall_store(t)
     \/ Event_load(t)
     \/ Event_store(t)
     \/ Reset_store(t)
     \/ Length_return(t)
     \/ \E w \in Words : GetCalls_load(t, w)
     \/ GetCalls_return(t)
     \/ \E c \in 1..Len(clients) :
           \/ Len(made) < LCalls /\ Incr(t, c, F)
           \/ Len(made) < LCalls /\ Event(t, c, Ev)
           \/ nresets < LResets /\ Reset(t, c)
           \/ Len(clients) < LClients /\ WithTags(t, c, TagA1)
           \/ nreads < LReads /\ Length(t, c)
           \/ Len(gets) < LGets /\ GetCalls_begin(t, c)

SpecLength == Init /\ [][NextLength]_vars

\* SpecString: calls with the values, rates and tags of StringCalls and
\* StringMaps are serialized.
NextString ==
  \E t \in {1} :
     \E call \in StringCalls, first \in StringMaps \cup {TagDup} :
        \E then \in (IF first = TagDup THEN {EmptyMap} ELSE StringMaps) :
           Println(t, call, first, then)

SpecString == Init /\ [][NextString]_vars

\* SpecDataDog: DataDogClients are derived from one another with WithTags,
\* WithRate and WithoutTelemetry, and their tags are read with Tags.
NextDataDog ==
  \E t \in {1} :
     \/ Len(datadog.clients) = 0
          /\ \E options \in {<< >>, <<"WithoutTelemetry">>, <<"WithStatsd">>,
                              <<"WithStatsd", "invalid">>},
                addressOk \in BOOLEAN :
                NewDataDogClient(t, options, addressOk)
     \/ \E c \in 1..Len(datadog.clients) :
           \/ Len(datadog.clients) < DClients
                /\ \E tags \in {TagA1, TagA2, TagB2, TagA2B2} :
                      DataDogClient_WithTags(t, c, tags)
           \/ Len(datadog.clients) < DClients
                /\ \E rate \in {1, RateOne} : DataDogClient_WithRate(t, c, rate)
           \/ Len(datadog.clients) < DClients /\ DataDogClient_WithoutTelemetry(t, c)
           \/ DataDogClient_Tags(t, c)

SpecDataDog == Init /\ [][NextDataDog]_vars

\* SpecMulti: a MultiClient over two recorders, the clients its WithTags and
\* WithRate make, and the operations invoked on them.
NextMulti ==
  \E t \in {1} :
     \/ RWMutex_Lock(t)
     \/ RWMutex_Unlock(t)
     \/ logCall_load(t)
     \/ logCall_store(t)
     \/ Event_load(t)
     \/ Event_store(t)
     \/ Len(callInfo) < 2 /\ NewRecorderClient(t)
     \/ Len(callInfo) = 2 /\ Len(multi.clients) = 0 /\ NewMultiClient(t, << 1, 2 >>)
     \/ MultiClient_forward(t)
     \/ MultiClient_return(t)
     \/ \E m \in 1..Len(multi.clients) :
           \/ Len(multi.clients) < MClients /\ MultiClient_WithTags(t, m, TagA1)
           \/ Len(multi.clients) < MClients /\ MultiClient_WithRate(t, m, 1)
           \/ Len(multi.calls) < MCalls /\ MultiClient_Count(t, m, F, 5)
           \/ Len(multi.calls) < MCalls /\ MultiClient_Incr(t, m, F)
           \/ Len(multi.calls) < MCalls /\ MultiClient_Decr(t, m, F)
           \/ Len(multi.calls) < MCalls /\ MultiClient_Gauge(t, m, F, 5)
           \/ Len(multi.calls) < MCalls /\ MultiClient_Event(t, m, Ev)
           \/ Len(multi.calls) < MCalls /\ MultiClient_Timing(t, m, F, 5)
           \/ Len(multi.calls) < MCalls /\ MultiClient_Histogram(t, m, F, 5)

SpecMulti == Init /\ [][NextMulti]_vars

\* SpecAssert: one goroutine records a few calls, then asserts on the log
\* several times: queries with short chains, Length and ExpectEmpty.
NextAssert ==
  \E t \in {1} :
     \/ \E w \in StackWords : stackInfo_load(t, w)
     \/ Fatalf_report(t)
     \/ RWMutex_Lock(t)
     \/ RWMutex_Unlock(t)
     \/ RWMutex_RLock(t)
     \/ logCall_load(t)
     \/ logCall_store(t)
     \/ Event_load(t)
     \/ Event_store(t)
     \/ Length_return(t)
     \/ callsCopy_make(t)
     \/ callsCopy_loop(t)
     \/ callsCopy_return(t)
     \/ ExpectEmpty_check(t)
     \/ ExpectEmpty_return(t)
     \/ \E c \in 1..Len(clients) :
           \/ nqueries + nreads = 0 /\ Len(made) < ACalls /\ Incr(t, c, F)
           \/ nqueries + nreads = 0 /\ Len(made) < ACalls /\ Event(t, c, Ev)
           \/ nqueries + nreads = 0 /\ Len(clients) < AClients
                /\ \E test \in Tests : WithTest(t, c, test)
           \/ nqueries < AQueries /\ Expect(t, c, F)
           \/ nqueries < AQueries /\ ExpectContains(t, c, <<":", "1">>)
           \/ nqueries < AQueries /\ If(t, c, F)
           \/ nqueries < AQueries /\ ExpectEmpty(t, c)
           \/ nreads < AReads /\ Length(t, c)
     \/ \E q \in 1..(Len(queries) + 1) :
           /\ MayStep(t, q, ASteps)
           /\ \/ ID(t, q, F)
              \/ Contains(t, q, <<":", "1">>)
              \/ MinTimes(t, q, 2)
              \/ Accept(t, q)
              \/ Reject(t, q)

SpecAssert == Init /\ [][NextAssert]_vars

\* SpecFilter: one goroutine gives the recorder a reporter (handle 2),
\* derives handles with tags and rates from it, records metrics and events
\* of two names through them, then narrows one query asked through handle
\* 2 with a chain of up to FSteps steps.
NextFilter ==
  \E t \in {1} :
     \/ \E w \in StackWords : stackInfo_load(t, w)
     \/ Fatalf_report(t)
     \/ RWMutex_Lock(t)
     \/ RWMutex_Unlock(t)
     \/ RWMutex_RLock(t)
     \/ logCall_load(t)
     \/ logCall_store(t)
     \/ Event_load(t)
     \/ Event_store(t)
     \/ callsCopy_make(t)
     \/ callsCopy_loop(t)
     \/ callsCopy_return(t)
     \/ \E c \in 1..Len(clients) :
           \/ Len(clients) = 1 /\ WithTest(t, c, "mock")
           \/ c > 1 /\ nqueries = 0 /\ Len(made) < FCalls /\ Incr(t, c, F)
           \/ c > 1 /\ nqueries = 0 /\ Len(made) < FCalls /\ Gauge(t, c, G, 5)
           \/ c > 1 /\ nqueries = 0 /\ Len(made) < FCalls /\ Event(t, c, Ev)
           \/ c = 2 /\ nqueries = 0 /\ Len(clients) < FClients
                /\ \E tags \in {TagA1, TagA2} : WithTags(t, c, tags)
           \/ c = 2 /\ nqueries = 0 /\ Len(clients) < FClients /\ WithRate(t, c, 1)
           \/ c = 2 /\ nqueries = 0 /\ \E id \in {F, G} : Expect(t, c, id)
           \/ c = 2 /\ nqueries = 0 /\ \E id \in {F, G} : If(t, c, id)
     \/ \E q \in 1..(Len(queries) + 1) :
           /\ MayStep(t, q, FSteps)
           /\ \/ \E id \in {F, G} : ID(t, q, id)
              \/ \E v \in {Int64(1), Float64(5)} : Value(t, q, v)
              \/ Value(t, q, Str(<<"x">>))
              \/ Text(t, q, <<"d">>)
              \/ \E v \in {<<"1">>, <<"2">>} : Tag(t, q, A, v)
              \/ TagName(t, q, A)
              \/ \E r \in {1, RateOne} : Rate(t, q, r)
              \/ Accept(t, q)
              \/ Reject(t, q)

SpecFilter == Init /\ [][NextFilter]_vars

\* SpecTagMaps: the caller makes maps, derives handles with them, records
\* through the handles and stores into its maps, in any order.
NextTagMaps ==
  \E t \in {1} :
     \/ Len(tagmaps.caller) < TMaps /\ \E tags \in {TagA1, TagB2} : MakeMap(t, tags)
     \/ tagmaps.stores < TStores
          /\ \E i \in 1..Len(tagmaps.caller), k \in {A, B} : MapStore(t, i, k, <<"2">>)
     \/ \E c \in 1..Len(tagmaps.clients) :
           \/ Len(tagmaps.clients) < TClients
                /\ \E i \in 1..Len(tagmaps.caller) : WithTags_maps(t, c, i)
           \/ Len(tagmaps.clients) < TClients /\ WithRate_maps(t, c)
           \/ Len(tagmaps.clients) < TClients /\ WithTest_maps(t, c)
           \/ Len(tagmaps.Calls) < TCalls /\ logCall_maps(t, c)
           \/ Len(tagmaps.Calls) < TCalls /\ Event_maps(t, c)

SpecTagMaps == Init /\ [][NextTagMaps]_vars

\* SpecLive: NThreads goroutines record, reset, read and assert through a
\* handle without a reporter and a handle with one.  The scheduler lets
\* every goroutine that can go on with its operation do so in the end
\* (Proceed); nobody has to invoke a further operation.
Proceed(t) ==
  \/ \E w \in StackWords : stackInfo_load(t, w)
  \/ Fatalf_report(t)
  \/ RWMutex_Lock(t)
  \/ RWMutex_Unlock(t)
  \/ RWMutex_RLock(t)
  \/ logCall_load(t)
  \/ logCall_store(t)
  \/ Reset_store(t)
  \/ Length_return(t)
  \/ callsCopy_make(t)
  \/ callsCopy_loop(t)
  \/ callsCopy_return(t)
  \/ ExpectEmpty_check(t)
  \/ ExpectEmpty_return(t)
  \/ \E q \in 1..(Len(queries) + 1) : pc[t] = "prefilter" /\ ID(t, q, F)

NextLive ==
  \E t \in Threads :
     \/ Proceed(t)
     \/ \E c \in 1..Len(clients) :
           \/ Len(made) < VCalls /\ Incr(t, c, F)
           \/ nresets < VResets /\ Reset(t, c)
           \/ nreads < VReads /\ Length(t, c)
           \/ nqueries < VQueries /\ ExpectEmpty(t, c)
           \/ nqueries < VQueries /\ Expect(t, c, F)
           \/ Len(clients) < VClients /\ \E test \in Tests : WithTest(t, c, test)

SpecLive ==
  /\ Init
  /\ [][NextLive]_vars
  /\ \A t \in Threads : WF_vars(Proceed(t))

\* SpecCommute: one goroutine records calls of one id, then narrows a first
\* query with CSteps - 1 filters after its pre-filter, and a second query on
\* the same log with the same filters in the opposite order.
OtherOrder(t, q, op, args) ==
  \/ pc[t] = "prefilter"
  \/ q = 1
  \/ /\ q = 2 /\ q <= Len(queries) /\ queries[q].nsteps >= 1
     /\ LET i == CSteps + 1 - queries[q].nsteps
        IN  /\ queries[1].trace[i] = op
            /\ IF op = "Value"
               THEN /\ queries[1].args[i][1].kind = args[1].kind
                    /\ queries[1].args[i][1].v = args[1].v
               ELSE queries[1].args[i] = args

NextCommute ==
  \E t \in {1} :
     \/ \E w \in StackWords : stackInfo_load(t, w)
     \/ Fatalf_report(t)
     \/ RWMutex_Lock(t)
     \/ RWMutex_Unlock(t)
     \/ RWMutex_RLock(t)
     \/ logCall_load(t)
     \/ logCall_store(t)
     \/ Event_load(t)
     \/ Event_store(t)
     \/ callsCopy_make(t)
     \/ callsCopy_loop(t)
     \/ callsCopy_return(t)
     \/ \E c \in 1..Len(clients) :
           \/ Len(clients) = 1 /\ WithTest(t, c, "mock")
           \/ c > 1 /\ nqueries = 0 /\ Len(made) < CCalls /\ Incr(t, c, F)
           \/ c > 1 /\ nqueries = 0 /\ Len(made) < CCalls /\ Gauge(t, c, F, 5)
           \/ c > 1 /\ nqueries = 0 /\ Len(made) < CCalls /\ Event(t, c, Ev)
           \/ c = 2 /\ nqueries = 0 /\ Len(clients) < CClients /\ WithTags(t, c, TagA1)
           \/ /\ c = 2 /\ nqueries < CQueries
              /\ \A q \in 1..Len(queries) : queries[q].nsteps = CSteps
              /\ If(t, c, F)
           \/ /\ c = 2 /\ nqueries < CQueries
              /\ \A q \in 1..Len(queries) : queries[q].nsteps = CSteps
              /\ Expect(t, c, F)
     \/ \E q \in 1..(Len(queries) + 1) :
           /\ MayStep(t, q, CSteps)
           /\ \/ \E id \in {F, G} : OtherOrder(t, q, "ID", << id >>) /\ ID(t, q, id)
              \/ /\ OtherOrder(t, q, "Contains", << <<":", "1">> >>)
                 /\ Contains(t, q, <<":", "1">>)
              \/ \E v \in {Int64(1), Float64(5), Duration(5)} :
                    OtherOrder(t, q, "Value", << v >>) /\ Value(t, q, v)
              \/ OtherOrder(t, q, "Value", << Str(<<"x">>) >>) /\ Value(t, q, Str(<<"x">>))
              \/ OtherOrder(t, q, "Text", << <<"d">> >>) /\ Text(t, q, <<"d">>)
              \/ OtherOrder(t, q, "Tag", << A, <<"1">> >>) /\ Tag(t, q, A, <<"1">>)
              \/ OtherOrder(t, q, "TagName", << A >>) /\ TagName(t, q, A)

SpecCommute == Init /\ [][NextCommute]_vars

\* SpecSnapshot: goroutine 1 makes a query with Expect, ExpectContains or
\* If, through the root or a handle with a reporter, and chains filters,
\* Accept and Reject on it, while goroutine 2 records calls and resets the
\* log, before, during and after the chain.
NextSnapshot ==
  \/ \E t \in Threads :
        \/ \E w \in StackWords : stackInfo_load(t, w)
        \/ Fatalf_report(t)
        \/ RWMutex_Lock(t)
        \/ RWMutex_Unlock(t)
        \/ RWMutex_RLock(t)
        \/ logCall_load(t)
        \/ logCall_store(t)
        \/ Reset_store(t)
        \/ callsCopy_make(t)
        \/ callsCopy_loop(t)
        \/ callsCopy_return(t)
  \/ \E c \in 1..Len(clients) :
        \/ c = 1 /\ Len(made) < SnCalls /\ \E name \in {F, G} : Incr(2, c, name)
        \/ c = 1 /\ nresets < SnResets /\ Reset(2, c)
        \/ c = 1 /\ Len(clients) < SnClients /\ Len(made) = 0 /\ WithTest(1, c, "mock")
        \/ nqueries < SnQueries /\ Expect(1, c, F)
        \/ nqueries < SnQueries /\ ExpectContains(1, c, <<":", "1">>)
        \/ nqueries < SnQueries /\ If(1, c, F)
  \/ \E q \in 1..(Len(queries) + 1) :
        /\ MayStep(1, q, SnSteps)
        /\ \/ \E id \in {F, G} : ID(1, q, id)
           \/ Contains(1, q, <<":", "1">>)
           \/ Accept(1, q)
           \/ Reject(1, q)

SpecSnapshot == Init /\ [][NextSnapshot]_vars

\* ------------------------------------------------------------------ claims
Quiescent == \A t \in Threads : pc[t] = "idle"

\* Is goroutine t inside RecorderClient.Fatalf, between the check of the
\* reporter and the call of the reporter?
InFatalf(t) == pc[t] = "Fatalf"

\* Is the failure of a step of query q on its way to the reporter?
Reporting(q) ==
  InFatalf(queries[q].owner) /\ frame[queries[q].owner].q = q

\* Does goroutine t, in the step from this state to the next, call Fatalf
\* for operation op of query q on a handle with a reporter?
CallsFatalf(t, q, op) ==
  /\ ~InFatalf(t)
  /\ pc'[t] = "Fatalf"
  /\ frame'[t].q = q
  /\ frame'[t].op = op
  /\ fatals' = fatals

\* Does the step hand the reporter one message more, that of the Fatalf
\* goroutine t is in: of its operation, of its query at the step the query
\* is at, to the reporter of its handle?
Delivers(t) ==
  /\ Len(fatals') = Len(fatals) + 1
  /\ SubSeq(fatals', 1, Len(fatals)) = fatals
  /\ LET m == fatals'[Len(fatals')]
     IN  /\ m.q = frame[t].q
         /\ m.op = frame[t].op
         /\ m.test = clients[frame[t].c].test
         /\ frame[t].q > 0 => m.step = queries[frame[t].q].nsteps

\* With one goroutine nothing is stored between the loads of Fatalf: every
\* call of Fatalf loads the header of the log and then hands the reporter
\* exactly one message, and ends as the reporter makes it end.
FatalfReports ==
  InFatalf(1) =>
     IF pc'[1] = "Fatalf" THEN fatals' = fatals
     ELSE /\ Delivers(1)
          /\ frame'[1].outcome = Fatalf_outcome(frame[1].c)
          /\ frame'[1].q = frame[1].q /\ frame'[1].op = frame[1].op

\* Does the step, one of goroutine 1, end without a call of Fatalf?
NoReport == pc'[1] # "Fatalf" /\ fatals' = fatals

AllReturned == \A id \in 1..Len(made) : made[id].outcome = "returned"

\* The ids of the calls of log ci, in log order.
LogIds(ci) ==
  [i \in 1..callInfo[ci].Calls.len |-> arrays[callInfo[ci].Calls.arr][i].id]

\* The calls invoked through the handles of log ci, in invocation order.
MadeIds(ci) ==
  SelectSeq([i \in 1..Len(made) |-> i], LAMBDA id : clients[made[id].c].callInfo = ci)

\* The first n write-lock acquisitions, those of log ci.
AcqOf(ci, n) == SelectSeq(SubSeq(acq, 1, n), LAMBDA a : a.ci = ci)

\* The ids of the appends that, among the first n acquisitions, took the lock
\* of log ci after its last Reset did, in acquisition order.
IdsAfterReset(ci, n) ==
  LET s == AcqOf(ci, n)
      R == { i \in 1..Len(s) : s[i].op = "Reset" }
      k == IF R = {} THEN 0 ELSE CHOOSE i \in R : \A j \in R : j <= i
  IN  [i \in 1..(Len(s) - k) |-> s[k + i].id]

\* C1: when goroutines record concurrently through the handles of a root and
\* nobody resets, then once every call has returned the length of the log is
\* the number of calls made, and every call is in the log exactly once.
C1_LengthIsCallsMade ==
  (Quiescent /\ nresets = 0 /\ AllReturned) =>
     \A ci \in 1..Len(callInfo) :
        /\ callInfo[ci].Calls.len = Len(MadeIds(ci))
        /\ \A id \in 1..Len(made) :
              clients[made[id].c].callInfo = ci =>
                 Cardinality({ i \in 1..Len(LogIds(ci)) : LogIds(ci)[i] = id }) = 1

\* Two calls have returned, the one invoked second having taken the lock
\* first: they ran concurrently.
C1_Witness ==
  /\ Quiescent /\ nresets = 0 /\ AllReturned
  /\ Len(made) = 2
  /\ Len(acq) = 2 /\ acq[1].id = 2 /\ acq[2].id = 1
  /\ made[1].c # made[2].c

\* C2: when a Reset runs concurrently with appends, then once all operations
\* have completed the log holds exactly the calls whose append took the lock
\* after the Reset did, in the order in which they took it.
C2_ResetAtomic ==
  (Quiescent /\ AllReturned) =>
     \A ci \in 1..Len(callInfo) : LogIds(ci) = IdsAfterReset(ci, Len(acq))

\* A call was invoked, then overtaken by a second call and by a Reset, and
\* appended after the Reset: it alone is in the log.
C2_Witness ==
  /\ Quiescent /\ AllReturned
  /\ Len(acq) = 3
  /\ acq[1].op = "logCall" /\ acq[1].id = 2
  /\ acq[2].op = "Reset"
  /\ acq[3].op = "logCall" /\ acq[3].id = 1
  /\ LogIds(1) = << 1 >>

\* C3: all handles derived from one root observe the same log: the same
\* calls, the same length, the same GetCalls.
C3_SharedLog ==
  \A h1, h2 \in 1..Len(clients) :
     root(h1) = root(h2) =>
        /\ Calls(h1) = Calls(h2)
        /\ GetCalls(h1) = GetCalls(h2)
        /\ clients[h1].callInfo = clients[h2].callInfo

\* A Reset made through one handle and a later call recorded through a
\* derived handle are seen through a third handle of the root, while the
\* handle of another root sees another log.
C3_Witness ==
  \E h1, h2, h3 \in 1..Len(clients) :
     /\ h1 # h2 /\ root(h1) = root(h2) /\ parent[h2].c # 0
     /\ Quiescent
     /\ Len(Calls(h1)) = 1
     /\ made[Calls(h1)[1].id].c = h2
     /\ Len(acq) = 3 /\ acq[2].op = "Reset" /\ made[acq[1].id].c = h2
     /\ root(h3) # root(h1)
     /\ Calls(h3) # Calls(h1)

\* The entry of a log that call id of made must have left: the arguments of
\* the call, and the rate and the tags of the handle it was made through.
IsEntryOf(e, id) ==
  LET m == made[id]
      h == clients[m.c]
  IN  /\ e.id = id
      /\ e.type = m.type
      /\ e.TagMap = h.tagMap
      /\ m.type = "MetricCall" =>
            e.Name = m.name /\ e.Value = m.value.v /\ e.Rate = h.rate
      /\ m.type = "EventCall" =>
            e.Event.Title = m.e.Title /\ e.Event.Text = m.e.Text

\* C4: after any sequence of recording calls with no Reset, GetCalls returns
\* exactly the calls made, one entry per call, in the order they were made,
\* each with the arguments, rate and tags in effect at the call.
C4_GetCallsReturnsCallsMade ==
  (Quiescent /\ nresets = 0) =>
     \A c \in 1..Len(clients) :
        LET got == Elems(arrays, GetCalls(c))
            ids == MadeIds(clients[c].callInfo)
        IN  /\ Len(got) = Len(ids)
            /\ \A i \in 1..Len(got) : i <= Len(ids) => IsEntryOf(got[i], ids[i])

\* C5: Event on a handle, whatever its tags, completes normally and appends
\* exactly one EventCall with the event's title and text and the handle's
\* tags.
C5_EventAppendsOneCall ==
  \A id \in 1..Len(made) :
     made[id].type = "EventCall" =>
        /\ made[id].outcome # "panic"
        /\ (made[id].outcome = "returned" /\ nresets = 0) =>
              LET ci == clients[made[id].c].callInfo
                  at == { i \in 1..Len(LogIds(ci)) : LogIds(ci)[i] = id }
              IN  /\ Cardinality(at) = 1
                  /\ \A i \in at : IsEntryOf(arrays[callInfo[ci].Calls.arr][i], id)

\* T is the override-merge of X and Y: the keys of both, Y's value on a key
\* of Y, X's value on the other keys.
IsMerge(T, X, Y) ==
  /\ DOMAIN T = (DOMAIN X) \cup (DOMAIN Y)
  /\ \A k \in DOMAIN Y : T[k] = Y[k]
  /\ \A k \in (DOMAIN X) \ (DOMAIN Y) : T[k] = X[k]

\* The tag mappings over the keys and values the specifications use.
AllTagMaps == UNION { [D -> { <<"1">>, <<"2">> }] : D \in SUBSET {A, B} }

\* C6: a handle made by WithTags carries the override-merge of the
\* receiver's tags and the argument; three chained WithTags give the tags of
\* one WithTags of the merged arguments; recorded calls carry the tags of
\* the handle they were made through.
C6_WithTagsMerges ==
  /\ \A h \in 1..Len(clients) :
        parent[h].op = "WithTags" =>
           IsMerge(clients[h].tagMap, clients[parent[h].c].tagMap, parent[h].arg)
  /\ \A h3 \in 1..Len(clients) :
        LET h2 == parent[h3].c IN
        (parent[h3].op = "WithTags" /\ parent[h2].op = "WithTags"
           /\ parent[parent[h2].c].op = "WithTags") =>
           LET h1 == parent[h2].c
               h0 == parent[h1].c
           IN  \E bc, abc \in AllTagMaps :
                  /\ IsMerge(bc, parent[h2].arg, parent[h3].arg)
                  /\ IsMerge(abc, parent[h1].arg, bc)
                  /\ IsMerge(clients[h3].tagMap, clients[h0].tagMap, abc)
  /\ \A ci \in 1..Len(callInfo) : \A i \in 1..callInfo[ci].Calls.len :
        LET e == arrays[callInfo[ci].Calls.arr][i]
        IN  e.TagMap = clients[made[e.id].c].tagMap

\* Three chained WithTags, the second overriding a key of the first and the
\* third a key of the second, and a call recorded through the last handle.
C6_Witness ==
  \E h3 \in 1..Len(clients) :
     LET h2 == parent[h3].c IN
     /\ parent[h3].op = "WithTags" /\ parent[h3].arg = TagA1
     /\ parent[h2].op = "WithTags" /\ parent[h2].arg = TagA2B2
     /\ parent[parent[h2].c].op = "WithTags" /\ parent[parent[h2].c].arg = TagA1
     /\ clients[h3].tagMap = [k \in {A, B} |-> IF k = A THEN <<"1">> ELSE <<"2">>]
     /\ \E i \in 1..Len(Calls(h3)) :
           /\ made[Calls(h3)[i].id].c = h3
           /\ Calls(h3)[i].TagMap = clients[h3].tagMap

\* C7: WithTags, WithRate and WithTest add a handle and change no existing
\* handle and no log; WithRate carries the tags over, WithTags the rate and
\* the reporter, WithTest the tags and the rate; a call records the tags and
\* the rate of the handle it is made through.
C7_DeriveLeavesReceiver ==
  [][ /\ \A h \in 1..Len(clients) : clients'[h] = clients[h]
      /\ Len(clients') # Len(clients) =>
            LET n == Len(clients')
                p == parent'[n]
            IN  /\ n = Len(clients) + 1
                /\ p.op # "NewRecorderClient" =>
                      /\ callInfo' = callInfo /\ arrays' = arrays
                      /\ clients'[n].callInfo = clients[p.c].callInfo
                /\ p.op = "WithRate" =>
                      /\ clients'[n].tagMap = clients[p.c].tagMap
                      /\ clients'[n].test = clients[p.c].test
                      /\ clients'[n].rate = p.arg
                /\ p.op = "WithTags" =>
                      /\ clients'[n].rate = clients[p.c].rate
                      /\ clients'[n].test = clients[p.c].test
                /\ p.op = "WithTest" =>
                      /\ clients'[n].rate = clients[p.c].rate
                      /\ clients'[n].tagMap = clients[p.c].tagMap
                      /\ clients'[n].test = p.arg
      /\ \A ci \in 1..Len(callInfo') : \A i \in 1..callInfo'[ci].Calls.len :
            LET e == arrays'[callInfo'[ci].Calls.arr][i]
                h == clients'[made'[e.id].c]
            IN  /\ e.TagMap = h.tagMap
                /\ e.type = "MetricCall" => e.Rate = h.rate
    ]_vars

\* A tagged handle from which WithTags and WithRate have made two more
\* handles is recording a call with its own tags.
C7_Witness ==
  \E h, h2, h3 \in 1..Len(clients) :
     /\ clients[h].tagMap = TagA1
     /\ parent[h2] = [c |-> h, op |-> "WithTags", arg |-> TagA2B2]
     /\ parent[h3] = [c |-> h, op |-> "WithRate", arg |-> 1]
     /\ clients[h2].tagMap # clients[h].tagMap
     /\ clients[h3].rate # clients[h].rate
     /\ pc[1] = "Unlock"
     /\ frame[1].op = "logCall" /\ frame[1].c = h
     /\ Calls(h)[Len(Calls(h))].TagMap = TagA1
     /\ Calls(h)[Len(Calls(h))].Rate = RateOne

\* The ids of a sequence of calls.
IdsOf(calls) == [i \in 1..Len(calls) |-> calls[i].id]

\* C8: a Length that follows a Reset with no append in between returns 0
\* through every handle of the root (in general, the number of appends that
\* took the lock after the last Reset); the snapshot of a query contains
\* every call appended after the last Reset that preceded it and no call
\* appended before that Reset.
C8_ResetThenLength ==
  /\ \A t \in Threads :
        (frame[t].op = "Length" /\ frame[t].outcome = "returned") =>
           frame[t].ret = Len(IdsAfterReset(clients[frame[t].c].callInfo, frame[t].nacq))
  /\ \A q \in 1..Len(queries) :
        LET ci == clients[queries[q].test].callInfo
            n  == queries[q].nacq
            in == { queries[q].snap[i].id : i \in 1..Len(queries[q].snap) }
        IN  \A k \in 1..n :
               (acq[k].op = "logCall" /\ acq[k].ci = ci) =>
                  (acq[k].id \in in <=>
                     ~\E j \in (k + 1)..n : acq[j].op = "Reset" /\ acq[j].ci = ci)

\* A call was recorded and the log Reset; a Length through a derived handle
\* then returned 0; a second call was recorded, and a query made after it
\* holds the second call alone.
C8_Witness ==
  /\ Len(acq) = 3
  /\ acq[1].op = "logCall" /\ acq[2].op = "Reset" /\ acq[3].op = "logCall"
  /\ \E t \in Threads :
        /\ frame[t].op = "Length" /\ frame[t].outcome = "returned"
        /\ frame[t].nacq = 2 /\ frame[t].ret = 0
        /\ parent[frame[t].c].c # 0
  /\ \E q \in 1..Len(queries) :
        /\ queries[q].nacq = 3
        /\ IdsOf(queries[q].snap) = << acq[3].id >>

\* Does a call of the snapshot of query q satisfy every filter that the
\* chain of q has applied so far?  Decided from the name the call was made
\* with and from its text.
C9_Kept(q, call) ==
  \A i \in 1..queries[q].nsteps :
     /\ queries[q].trace[i] = "ID" => made[call.id].name = queries[q].args[i][1]
     /\ queries[q].trace[i] = "Contains" =>
           Contains_(String(call), queries[q].args[i][1])

\* The candidates of a query are the calls of its snapshot that its filters
\* keep, in the order of the snapshot.
C9_Candidates ==
  \A q \in 1..Len(queries) :
     queries[q].calls = SelectSeq(queries[q].snap, LAMBDA call : C9_Kept(q, call))

\* Has the step that takes query q to its next state to fail?  Decided
\* from the candidates, that is from the snapshot: a filter of Expect or
\* ExpectContains fails when it leaves none, Accept when none is left,
\* Reject when one is.
C9_Fails(q, op) ==
  IF op = "Reject" THEN queries[q].calls # << >>
  ELSE IF op = "Accept" THEN queries[q].calls = << >>
  ELSE queries[q].entry # "If" /\ queries'[q].calls = << >>

\* A step of a chain fails or passes as the snapshot has it: a step that
\* passes returns and reports nothing; one that fails calls Fatalf, which
\* panics at once on a handle with no reporter.  Every other step leaves
\* the query as it is (the end of its Fatalf ends the chain or not).
C9_Step ==
  \A q \in 1..Len(queries) :
     /\ queries'[q].snap = queries[q].snap
     /\ queries'[q].nsteps = queries[q].nsteps =>
           /\ [queries'[q] EXCEPT !.done = queries[q].done] = queries[q]
           /\ queries'[q].done # queries[q].done =>
                 Reporting(q) /\ pc'[queries[q].owner] = "idle"
     /\ queries'[q].nsteps # queries[q].nsteps =>
           LET t  == queries[q].owner
               op == frame'[t].op
           IN  /\ queries'[q].nsteps = queries[q].nsteps + 1
               /\ frame'[t].q = q
               /\ queries'[q].trace[queries'[q].nsteps] = op
               /\ IF ~C9_Fails(q, op)
                  THEN /\ frame'[t].outcome = "returned"
                       /\ pc'[t] = "idle" /\ fatals' = fatals
                  ELSE IF clients[queries[q].test].test \in Tests
                  THEN CallsFatalf(t, q, op)
                  ELSE /\ frame'[t].outcome = "panic"
                       /\ pc'[t] = "idle" /\ fatals' = fatals

\* The log does not change while callsCopy copies it.
C9_Copy ==
  \A t \in Threads :
     (pc[t] \in {"callsCopy", "callsCopy_loop"}
        /\ pc'[t] \in {"callsCopy", "callsCopy_loop"}) =>
        Calls(frame[t].c)' = Calls(frame[t].c)

\* The Fatalf of a failing step hands the reporter the message of that
\* step and ends as the reporter does.
C9_FatalfReports ==
  \A t \in Threads :
     (InFatalf(t) /\ pc'[t] # "Fatalf") =>
        Delivers(t) /\ frame'[t].outcome = Fatalf_outcome(frame[t].c)

\* What the code does: the Fatalf of a failing step hands the reporter the
\* message of that step, or faults in the dump of the log and reports
\* nothing.
C9_FatalfReportsOrFaults ==
  \A t \in Threads :
     (InFatalf(t) /\ pc'[t] # "Fatalf") =>
        \/ Delivers(t) /\ frame'[t].outcome = Fatalf_outcome(frame[t].c)
        \/ frame'[t].outcome = "panic" /\ fatals' = fatals

\* C9: the candidates of a query are fixed by the snapshot taken at its
\* creation.  The log does not change while callsCopy copies it; a step of
\* any goroutine that is not a step of the query's own chain (an append, a
\* Reset) leaves the query as it is; after every step the candidates are
\* the calls of the snapshot that the filters applied keep; and every filter
\* and terminal step ends as the snapshot has it: it passes, or it fails and
\* the reporter of the handle gets the message of that step, whatever the
\* log holds by then.
C9_SnapshotFixed ==
  /\ []C9_Candidates
  /\ [][C9_Step /\ C9_Copy /\ C9_FatalfReports]_vars

\* The same with the Fatalf of a failing step allowed to fault: this holds.
C9_SnapshotFixedUnlessFault ==
  /\ []C9_Candidates
  /\ [][C9_Step /\ C9_Copy /\ C9_FatalfReportsOrFaults]_vars

\* If("f") took its snapshot of one call, the other goroutine reset the
\* log, and Reject, failing on the call of the snapshot, panicked in the
\* dump of the log on a handle with a reporter: nothing was reported.
C9_FaultWitness ==
  \E q \in 1..Len(queries) :
     /\ queries[q].entry = "If"
     /\ clients[queries[q].test].test \in Tests
     /\ Len(queries[q].snap) = 1 /\ queries[q].calls = queries[q].snap
     /\ nresets = 1
     /\ pc[1] = "idle" /\ frame[1].op = "Reject" /\ frame[1].q = q
     /\ frame[1].outcome = "panic"
     /\ fatals = << >>

\* A query holds a call of its snapshot although the log has been Reset and
\* has taken another call since, and its Reject has failed on that call and
\* reported, with a dump of the log as it was by then.
C9_Witness ==
  \E q \in 1..Len(queries) :
     /\ queries[q].done
     /\ Len(queries[q].calls) = 1
     /\ queries[q].calls = queries[q].snap
     /\ queries[q].nacq = 1
     /\ Len(acq) = 3 /\ acq[2].op = "Reset" /\ acq[3].op = "logCall"
     /\ Quiescent
     /\ LogIds(clients[queries[q].test].callInfo) = << acq[3].id >>
     /\ frame[queries[q].owner].op = "Reject"
     /\ Len(fatals) = 1 /\ fatals[1].q = q /\ fatals[1].op = "Reject"

\* Expect("f") on a log of f and g, then ID("g"): the filter left no call
\* and reported, after the other goroutine had reset the log.
C9_WitnessExpect ==
  \E q \in 1..Len(queries) :
     /\ queries[q].entry = "Expect"
     /\ Len(queries[q].snap) = 2
     /\ queries[q].trace = << "ID", "ID" >>
     /\ queries[q].calls = << >>
     /\ nresets = 1
     /\ Len(fatals) = 1 /\ fatals[1].q = q /\ fatals[1].step = 2
     /\ Len(fatals[1].msg.stack) = 0

\* The filter steps of a chain.
FilterOps == {"Contains", "ID", "Value", "Text", "Tag", "TagName"}

\* C10: in a chain started by Expect or ExpectContains on a handle with a
\* reporter, every filter step, the pre-filter included, invokes the
\* reporter at that step exactly when fewer calls remain after it than the
\* current threshold; a step leaving at least that many reports nothing.
C10_FailFast ==
  [][ FatalfReports /\ \A q \in 1..Len(queries) :
         (/\ queries'[q].nsteps = queries[q].nsteps + 1
          /\ frame'[1].op \in FilterOps
          /\ queries[q].entry \in {"Expect", "ExpectContains"}
          /\ clients[queries[q].test].test \in Tests) =>
            IF Len(queries'[q].calls) < queries'[q].minCalls
            THEN CallsFatalf(1, q, frame'[1].op)
            ELSE NoReport
    ]_vars

\* Expect found two calls and reported nothing, MinTimes(2) raised the
\* threshold and reported nothing, and the Tag filter that left one call
\* reported at the third step.
C10_Witness ==
  \E q \in 1..Len(queries) :
     /\ queries[q].entry = "Expect"
     /\ Len(queries[q].snap) = 2
     /\ queries[q].minCalls = 2
     /\ queries[q].nsteps = 3
     /\ Len(queries[q].calls) = 1
     /\ Len(fatals) = 1
     /\ fatals[1].q = q /\ fatals[1].op = "Tag" /\ fatals[1].step = 3

\* Does the step from this state to the next apply one more operation to
\* query q?
StepOn(q) == queries'[q].nsteps = queries[q].nsteps + 1

\* Has the handle of query q a reporter?
HasReporter(q) == clients[queries[q].test].test \in Tests

\* C11: in a chain started by If no filter and no MinTimes invokes the
\* reporter or aborts, however few calls remain, none included; only Accept
\* and Reject report.
C11_IfNeverFailsFast ==
  [][ \A q \in 1..Len(queries) :
         (StepOn(q) /\ queries[q].entry = "If") =>
            /\ frame'[1].op \in FilterOps \cup {"MinTimes"} =>
                  fatals' = fatals /\ frame'[1].outcome = "returned"
            /\ pc'[1] = "Fatalf" => frame'[1].op \in {"Accept", "Reject"}
    ]_vars

\* A chain of If on a log with a call of the id: a Tag filter left no call,
\* MinTimes(2) followed, and the reporter of the handle heard nothing.
C11_Witness ==
  \E q \in 1..Len(queries) :
     /\ queries[q].entry = "If" /\ HasReporter(q)
     /\ Len(queries[q].snap) > 0
     /\ queries[q].nsteps = 3
     /\ queries[q].calls = << >>
     /\ queries[q].minCalls = 2
     /\ frame[1].op = "MinTimes"
     /\ fatals = << >>

\* C12: Reject reports through the reporter exactly when the number of calls
\* left is at least the threshold (1, or the value MinTimes set last).
C12_RejectIffAtLeastMin ==
  [][ FatalfReports /\ \A q \in 1..Len(queries) :
         (StepOn(q) /\ frame'[1].op = "Reject" /\ HasReporter(q)) =>
            IF Len(queries[q].calls) >= queries[q].minCalls
            THEN CallsFatalf(1, q, "Reject")
            ELSE NoReport /\ frame'[1].outcome = "returned"
    ]_vars

\* If(id).MinTimes(2).Reject() with one call of the id: Reject passed.
C12_Witness ==
  \E q \in 1..Len(queries) :
     /\ queries[q].entry = "If" /\ HasReporter(q)
     /\ queries[q].nsteps = 3 /\ queries[q].done
     /\ frame[1].op = "Reject" /\ frame[1].outcome = "returned"
     /\ Len(queries[q].calls) = 1
     /\ queries[q].minCalls = 2
     /\ fatals = << >>

\* C13: Accept reports through the reporter exactly when fewer calls are
\* left than the threshold (1, or the value MinTimes set last).
C13_AcceptIffBelowMin ==
  [][ FatalfReports /\ \A q \in 1..Len(queries) :
         (StepOn(q) /\ frame'[1].op = "Accept" /\ HasReporter(q)) =>
            IF Len(queries[q].calls) < queries[q].minCalls
            THEN CallsFatalf(1, q, "Accept")
            ELSE NoReport /\ frame'[1].outcome = "returned"
    ]_vars

\* If(id).MinTimes(2).Accept() with one call of the id: Accept reported.
C13_Witness ==
  \E q \in 1..Len(queries) :
     /\ queries[q].entry = "If" /\ HasReporter(q)
     /\ queries[q].nsteps = 3 /\ queries[q].done
     /\ Len(queries[q].calls) = 1
     /\ queries[q].minCalls = 2
     /\ Len(fatals) = 1 /\ fatals[1].op = "Accept" /\ fatals[1].step = 3

\* C14: the id "*" is a wildcard: the pre-filter of Expect("*") and If("*")
\* keeps every call of the snapshot, and If("*").Tag(k, v).Reject() fails
\* exactly when a recorded call carries tag k with value v.
C14_StarKeepsEveryCall ==
  \A q \in 1..Len(queries) :
     (queries[q].entry \in {"Expect", "If"} /\ queries[q].arg = Star) =>
        /\ queries[q].nsteps = 1 => queries[q].calls = queries[q].snap
        /\ (queries[q].nsteps = 3 /\ frame[1].op = "Reject" /\ HasReporter(q)
              /\ ~Reporting(q)
              /\ queries[q].history = <<" ", "i", "d", "(", "*", ")">>
                   \o <<" ", "t", "a", "g", "(">> \o A \o <<",", " ">> \o <<"1">> \o <<")">>) =>
              (fatals # << >> <=>
                 \E i \in 1..Len(queries[q].snap) :
                    Tag_pred(queries[q].snap[i], A, <<"1">>))

\* The number of calls of the snapshot of query q that were made with the
\* id the entry point was given: metrics of that name, events of that title.
CallsOfId(q) ==
  Cardinality({ i \in 1..Len(queries[q].snap) :
                  LET m == made[queries[q].snap[i].id]
                  IN  \/ m.type = "MetricCall" /\ m.name = queries[q].arg
                      \/ m.type = "EventCall" /\ m.e.Title = queries[q].arg })

\* The failures reported on query q.
FatalsOf(fs, q) == SelectSeq(fs, LAMBDA f : f.q = q)

\* C15: with k calls of the id in the log, Expect(id).MinTimes(n) reports no
\* failure exactly when k >= n; a MinTimes that follows filters reports
\* exactly when fewer calls than n survived them.
C15_MinTimes ==
  [][ FatalfReports /\ \A q \in 1..Len(queries) :
         (StepOn(q) /\ frame'[1].op = "MinTimes" /\ queries[q].entry = "Expect"
            /\ HasReporter(q)) =>
            /\ IF Len(queries[q].calls) < queries'[q].minCalls
               THEN CallsFatalf(1, q, "MinTimes")
               ELSE NoReport
            /\ queries[q].nsteps = 1 =>
                  ((FatalsOf(fatals, q) = << >> /\ NoReport)
                      <=> CallsOfId(q) >= queries'[q].minCalls)
    ]_vars

\* After two calls of an id, Expect(id).MinTimes(2) has reported nothing.
C15_Witness ==
  \E q \in 1..Len(queries) :
     /\ queries[q].entry = "Expect" /\ HasReporter(q)
     /\ queries[q].nsteps = 2 /\ frame[1].op = "MinTimes"
     /\ queries[q].minCalls = 2
     /\ CallsOfId(q) = 2
     /\ fatals = << >>

\* C16: Expect(id) and If(id).Accept() on the same log through the same
\* handle report a failure in the same cases and leave the same candidates.
C16_ExpectIsIfAccept ==
  \A q1, q2 \in 1..Len(queries) :
     (/\ queries[q1].entry = "Expect" /\ queries[q1].nsteps = 1
      /\ queries[q2].entry = "If" /\ queries[q2].nsteps = 2
      /\ queries[q1].arg = queries[q2].arg
      /\ queries[q1].test = queries[q2].test
      /\ HasReporter(q1)
      /\ ~Reporting(q1) /\ ~Reporting(q2)) =>
        /\ queries[q1].calls = queries[q2].calls
        /\ Len(FatalsOf(fatals, q1)) = Len(FatalsOf(fatals, q2))
        /\ Len(FatalsOf(fatals, q1)) <= 1

\* Both chains ran for an id the log has once among two calls: both kept
\* that call and reported nothing.
C16_Witness ==
  \E q1, q2 \in 1..Len(queries) :
     /\ queries[q1].entry = "Expect" /\ queries[q1].nsteps = 1
     /\ queries[q2].entry = "If" /\ queries[q2].nsteps = 2
     /\ queries[q1].arg = queries[q2].arg
     /\ queries[q1].test = queries[q2].test
     /\ HasReporter(q1)
     /\ Len(queries[q1].snap) = 2
     /\ Len(queries[q1].calls) = 1
     /\ queries[q2].calls = queries[q1].calls
     /\ fatals = << >>

\* C17: on a handle with no reporter an assertion (Expect, ExpectContains,
\* ExpectEmpty, or Accept and Reject after If) aborts with a panic, whatever
\* the log holds; it never completes silently.
C17_NoReporterPanics ==
  LET f == frame[1] IN
  (f.c > 0 /\ clients[f.c].test = "nil" /\ f.outcome # "running") =>
     /\ f.op = "ExpectEmpty" => f.outcome = "panic"
     /\ f.op \in {"Accept", "Reject"} => f.outcome = "panic"
     /\ (f.op \in {"ID", "Contains"} /\ queries[f.q].nsteps = 1
           /\ queries[f.q].entry \in {"Expect", "ExpectContains"}) =>
           f.outcome = "panic"

\* C18: Expect(id) on a log with no call of that id, the empty log included,
\* invokes the reporter of the handle exactly once.
C18_ExpectMissingReportsOnce ==
  \A q \in 1..Len(queries) :
     (queries[q].entry = "Expect" /\ HasReporter(q) /\ queries[q].nsteps = 1
        /\ CallsOfId(q) = 0) =>
        IF Reporting(q) THEN FatalsOf(fatals, q) = << >> ELSE
        /\ Len(FatalsOf(fatals, q)) = 1
        /\ FatalsOf(fatals, q)[1].test = clients[queries[q].test].test
        /\ FatalsOf(fatals, q)[1].op = "ID"
        /\ FatalsOf(fatals, q)[1].step = 1

\* Expect ran for an id that none of the two calls of the log has, and the
\* reporter was invoked once.
C18_Witness ==
  \E q \in 1..Len(queries) :
     /\ queries[q].entry = "Expect" /\ HasReporter(q) /\ queries[q].nsteps = 1
     /\ Len(queries[q].snap) = 2
     /\ CallsOfId(q) = 0
     /\ Len(fatals) = 1 /\ fatals[1].q = q

\* C19: every failure a query step reports hands the reporter a message
\* with the dump of every call of the shared log and with the trace of the
\* operations chained so far on the query.
C19_MessageHasDumpAndTrace ==
  \A i \in 1..Len(fatals) :
     fatals[i].q > 0 =>
        LET m == fatals[i].msg
            h == queries[fatals[i].q].history
        IN  /\ m.stack = stackInfo(clients[queries[fatals[i].q].test].callInfo)
            /\ m.format[Len(m.format)] = ". Query was '%s'."
            /\ Len(m.args) > 0
            /\ \E n \in 1..Len(h) : m.args[Len(m.args)] = Trim(SubSeq(h, 1, n), " ")

\* C20: whenever an assertion (a query step or ExpectEmpty) invokes the
\* reporter's Fatalf, neither the read lock nor the write lock of the log is
\* held.
C20_NoLockAcrossFatalf ==
  \A i \in 1..Len(fatals) : fatals[i].mutex.r = 0 /\ ~fatals[i].mutex.w

\* The content of every log.
Logs == [ci \in 1..Len(callInfo) |-> Elems(arrays, callInfo[ci].Calls)]

\* An ExpectEmpty of goroutine t on a handle with a reporter has made its check.
ExpectEmptyChecked(t) ==
  /\ frame[t].op = "ExpectEmpty"
  /\ pc[t] \in {"RUnlock", "idle"}
  /\ clients[frame[t].c].test \in Tests

\* The step in which ExpectEmpty makes its check, and the step in which it
\* returns.
C21_Check ==
  \A t \in Threads :
     (pc[t] = "ExpectEmpty" /\ pc'[t] # "ExpectEmpty") =>
        LET c == frame[t].c
            n == callInfo[clients[c].callInfo].Calls.len
        IN  /\ Logs' = Logs
            /\ n = 0 => fatals' = fatals /\ frame'[t].outcome = "returned"
            /\ (n > 0 /\ clients[c].test \in Tests) =>
                  /\ Len(fatals') = Len(fatals) + 1
                  /\ SubSeq(fatals', 1, Len(fatals)) = fatals
                  /\ fatals'[Len(fatals')].op = "ExpectEmpty"
                  /\ fatals'[Len(fatals')].test = clients[c].test

C21_Return ==
  \A t \in Threads :
     (frame[t].op = "ExpectEmpty" /\ pc[t] = "RUnlock" /\ pc'[t] # "RUnlock") =>
        Logs' = Logs /\ fatals' = fatals

\* C21: when ExpectEmpty makes its check on a handle with a reporter
\* attached, the reporter receives exactly one failure if the log holds a
\* call and none if it is empty; on an empty log ExpectEmpty ends normally;
\* and no step of ExpectEmpty changes the content of a log or reports
\* anything else.
C21_ExpectEmptyReportsIffNonEmpty == [][C21_Check /\ C21_Return]_vars

\* A reporter was told once by an ExpectEmpty on a log of one call.
C21_Witness ==
  /\ ExpectEmptyChecked(1)
  /\ pc[1] = "idle"
  /\ callInfo[clients[frame[1].c].callInfo].Calls.len = 1
  /\ Len(fatals) = 1
  /\ fatals[1].op = "ExpectEmpty"

\* An ExpectEmpty on an empty log is over and nothing was reported.
C21_WitnessEmpty ==
  /\ ExpectEmptyChecked(1)
  /\ pc[1] = "idle"
  /\ callInfo[clients[frame[1].c].callInfo].Calls.len = 0
  /\ fatals = << >>

\* The operations that assert on the log or read it, and what C22 compares.
AssertOps == {"callsCopy", "ExpectEmpty", "Length", "ID", "Contains", "Value",
              "Text", "Tag", "TagName", "MinTimes", "Accept", "Reject"}

Reported(q) ==
  LET fs == FatalsOf(fatals, q)
  IN  [i \in 1..Len(fs) |-> [op |-> fs[i].op, step |-> fs[i].step,
                              msg |-> fs[i].msg, test |-> fs[i].test]]

Alike(q1, q2) ==
  /\ queries[q1].test = queries[q2].test
  /\ queries[q1].entry = queries[q2].entry
  /\ queries[q1].arg = queries[q2].arg
  /\ queries[q1].history = queries[q2].history
  /\ queries[q1].trace = queries[q2].trace

C22_LogKept ==
  \A q \in 1..Len(queries) : Calls(queries[q].test) = queries[q].snap

C22_SameResult ==
  \A q1, q2 \in 1..Len(queries) :
     (Alike(q1, q2) /\ ~Reporting(q1) /\ ~Reporting(q2)) =>
       /\ queries[q1].calls = queries[q2].calls
       /\ queries[q1].minCalls = queries[q2].minCalls
       /\ queries[q1].done = queries[q2].done
       /\ Reported(q1) = Reported(q2)

C22_AssertionStep ==
  (\E t \in Threads : frame'[t].op \in AssertOps) => Logs' = Logs

\* C22: assertions never consume recorded calls.  No step of a query
\* (created by Expect, ExpectContains or If and continued by filters,
\* MinTimes, Accept or Reject), of Length or of ExpectEmpty changes the
\* content of any log; the log a query was made from still holds every call
\* of the query's snapshot, the filtered-out ones included; and two queries
\* made alike on the same handle (same entry point and argument, same steps
\* with the same arguments) have the same candidates, the same minimum and
\* the same failures reported.
C22_AssertionsKeepLog ==
  /\ [](C22_LogKept /\ C22_SameResult)
  /\ [][C22_AssertionStep]_vars

\* A second query, made like the first and with a filter that dropped a
\* call, has ended and the log still holds both calls.
C22_Witness ==
  /\ Len(queries) = 2
  /\ Alike(1, 2)
  /\ queries[2].nsteps = 2
  /\ Len(queries[2].calls) < Len(queries[2].snap)
  /\ Len(Calls(queries[2].test)) = 2
  /\ pc[1] = "idle"

\* Does the slice GetCalls returned lie within its backing array?
InBounds(g) == g.s.len <= arrayLen(arrays, g.s)

\* C23: the sequence a GetCalls call returned is a snapshot of the log: it
\* lies within its backing array, it is the log as it was when the call did
\* not overlap a writer, and neither its length nor any of its elements has
\* changed since, whatever was appended or reset afterwards.
C23_GetCallsIsSnapshot ==
  \A i \in 1..Len(gets) :
     /\ InBounds(gets[i])
     /\ Elems(arrays, gets[i].s) = gets[i].elems
     /\ ~gets[i].raced => gets[i].elems = gets[i].log

\* The same for the GetCalls calls that overlapped no writer: these hold.
C23_QuietGetCallsIsSnapshot ==
  \A i \in 1..Len(gets) :
     ~gets[i].raced =>
        /\ InBounds(gets[i])
        /\ Elems(arrays, gets[i].s) = gets[i].elems
        /\ gets[i].elems = gets[i].log

\* A GetCalls call returned three calls without overlapping a writer, and a
\* fourth call was then appended in place, into the array the returned
\* slice points to.
C23_QuietWitness ==
  /\ Len(gets) = 1
  /\ ~gets[1].raced
  /\ gets[1].s.len = 3
  /\ callInfo[gets[1].ci].Calls.arr = gets[1].s.arr
  /\ callInfo[gets[1].ci].Calls.len = 4

\* A GetCalls call returned one call, and the log was reset afterwards.
C23_QuietWitnessReset ==
  /\ Len(gets) = 1
  /\ ~gets[1].raced
  /\ gets[1].s.len = 1
  /\ nresets = 1
  /\ Quiescent
  /\ callInfo[gets[1].ci].Calls.len = 0

\* Operation op is what the goroutine did last, and it returned.
JustReturned(op) ==
  /\ frame[1].op = op
  /\ frame[1].outcome = "returned"

\* C24: in a quiescent state the number Length returned just now is the
\* number of elements GetCalls returns, and both are the number of recording
\* calls made since the last Reset through the handles of the root: all the
\* calls made when there was no Reset, and the calls that took the lock
\* after the last Reset did when every call returned.
C24_LengthIsGetCallsIsCallsMade ==
  Quiescent =>
     \A c \in 1..Len(clients) :
        LET ci == clients[c].callInfo
            n  == Len(Elems(arrays, GetCalls(c)))
        IN  /\ (JustReturned("Length") /\ clients[frame[1].c].callInfo = ci) =>
                  frame[1].ret = n
            /\ (JustReturned("GetCalls") /\ gets[Len(gets)].ci = ci) =>
                  Len(gets[Len(gets)].elems) = n
            /\ nresets = 0 => n = Len(MadeIds(ci))
            /\ AllReturned => n = Len(IdsAfterReset(ci, Len(acq)))

\* The same, counting the recording calls that returned: this holds.
C24_LengthIsGetCallsIsCallsReturned ==
  Quiescent =>
     \A c \in 1..Len(clients) :
        LET ci == clients[c].callInfo
            n  == Len(Elems(arrays, GetCalls(c)))
        IN  /\ (JustReturned("Length") /\ clients[frame[1].c].callInfo = ci) =>
                  frame[1].ret = n
            /\ (JustReturned("GetCalls") /\ gets[Len(gets)].ci = ci) =>
                  Len(gets[Len(gets)].elems) = n
            /\ n = Len(IdsAfterReset(ci, Len(acq)))
            /\ nresets = 0 =>
                  n = Len(SelectSeq(MadeIds(ci),
                                    LAMBDA id : made[id].outcome = "returned"))

\* Length has just returned 1: two calls were made, then the log was reset,
\* then one more call was made.
C24_ReturnedWitness ==
  /\ Quiescent
  /\ JustReturned("Length")
  /\ frame[1].ret = 1
  /\ nresets = 1
  /\ Len(made) = 3
  /\ Len(gets) = 1

\* The rate a handle has by its derivation.
RECURSIVE RateOf(_)
RateOf(c) ==
  IF parent[c].c = 0 THEN RateOne
  ELSE IF parent[c].op = "WithRate" THEN parent[c].arg
  ELSE RateOf(parent[c].c)

\* C25: the recorder never samples.  A handle has the rate of the last
\* WithRate of its derivation, 1.0 when there is none; every metric call that
\* returned is in the log exactly once (no Reset having been called), and
\* every MetricCall of a log has the rate of the handle it was made through
\* and the value that was passed, unscaled.
C25_NeverSamples ==
  /\ \A c \in 1..Len(clients) : clients[c].rate = RateOf(c)
  /\ \A id \in 1..Len(made) :
        (made[id].type = "MetricCall" /\ made[id].outcome = "returned"
           /\ nresets = 0) =>
           LET ids == LogIds(clients[made[id].c].callInfo)
           IN  Cardinality({ i \in 1..Len(ids) : ids[i] = id }) = 1
  /\ \A ci \in 1..Len(callInfo) :
        \A i \in 1..callInfo[ci].Calls.len :
           LET e == arrays[callInfo[ci].Calls.arr][i]
           IN  e.type = "MetricCall" =>
                  /\ e.Rate = RateOf(made[e.id].c)
                  /\ e.Value = made[e.id].value.v

\* Two calls made through a handle of rate 0.1 are both in the log, with
\* rate 0.1 and value 1.
C25_Witness ==
  /\ Quiescent
  /\ Len(made) = 2
  /\ \A id \in 1..2 : RateOf(made[id].c) = 1 /\ made[id].type = "MetricCall"
  /\ callInfo[1].Calls.len = 2
  /\ \A i \in 1..2 : arrays[callInfo[1].Calls.arr][i].Rate = 1
                        /\ arrays[callInfo[1].Calls.arr][i].Value = 1

\* The texts expected of the serialized calls, written out.
C26_TagsText(m) ==
  CASE m = EmptyMap -> << >>
    [] m = TagA1    -> <<"a", ":", "1">>
    [] m = TagB2    -> <<"b", ":", "2">>
    [] m = TagA2B2  -> <<"a", ":", "2", " ", "b", ":", "2">>
    [] m = [k \in {A, B} |-> IF k = A THEN <<"1">> ELSE <<"2">>]
                    -> <<"a", ":", "1", " ", "b", ":", "2">>
    [] m = TagDup   -> <<"a", ":", "b", ":", "c", " ", "a", ":", "b", ":", "c">>

C26_ValueText(v) ==
  CASE v = 1     -> <<"1">>
    [] v = 5     -> <<"5">>
    [] v = 0 - 1 -> <<"-", "1">>
    [] v = 1000000 -> <<"1", "e", "+", "0", "6">>
    [] v = 0 - 1200000 -> <<"-", "1", ".", "2", "e", "+", "0", "6">>

C26_RateText(r) ==
  CASE r = RateOne -> << >>
    [] r = 1       -> <<"(", "0", ".", "1", ")">>
    [] r = 5       -> <<"(", "0", ".", "5", ")">>
    [] r = 0 - 5   -> <<"(", "-", "0", ".", "5", ")">>
    [] r = 10000001 -> <<"(", "1", ".", "0", "0", "0", "0", "0", "0", "1",
                         "e", "+", "0", "6", ")">>

C26_Text(call) ==
  IF call.type = "MetricCall"
  THEN call.Name \o <<":">> \o C26_ValueText(call.Value) \o C26_RateText(call.Rate)
         \o <<"[">> \o C26_TagsText(call.TagMap) \o <<"]">>
  ELSE call.Event.Title \o <<":">> \o call.Event.Text
         \o <<"[">> \o C26_TagsText(call.TagMap) \o <<"]">>

\* C26: the canonical string of a MetricCall is NAME:VALUE[TAGS] at rate 1.0
\* and NAME:VALUE(RATE)[TAGS] otherwise, that of an EventCall is
\* TITLE:TEXT[TAGS], TAGS being the key:value entries in ascending order with
\* one space between them, in whatever order the tags were added.  The
\* expected texts are written out.
C26_CanonicalString ==
  \A t \in Threads :
     frame[t].op = "String" => frame[t].ret = C26_Text(frame[t].calls[1])

\* A call of rate 0.1 whose handle got tag b first and tag a then was
\* serialized to f:1(0.1)[a:1 b:2].
C26_Witness ==
  /\ frame[1].op = "String"
  /\ frame[1].arg = [first |-> TagB2, then |-> TagA1]
  /\ frame[1].calls[1].type = "MetricCall"
  /\ frame[1].calls[1].Rate = 1
  /\ frame[1].ret = <<"f", ":", "1", "(", "0", ".", "1", ")", "[",
                       "a", ":", "1", " ", "b", ":", "2", "]">>

\* The call of Count(g, 5) on an untagged handle of rate 1.0 was serialized
\* to g:5[], and an event with two tags to f:d[a:2 b:2].
C26_WitnessPlain ==
  /\ frame[1].op = "String"
  /\ frame[1].ret \in { <<"g", ":", "5", "[", "]">>,
                        <<"f", ":", "d", "[", "a", ":", "2", " ", "b", ":", "2", "]">> }

\* The tag maps DataDogClient c got, from its root on.
RECURSIVE TagMapsOf(_)
TagMapsOf(c) ==
  LET from == datadog.clients[c].parent
  IN  IF from.c = 0 THEN << >>
      ELSE IF from.op = "WithTags" THEN Append(TagMapsOf(from.c), from.arg)
      ELSE TagMapsOf(from.c)

\* How often string x is among the strings of sequence strs.
Count_(strs, x) == Cardinality({ i \in 1..Len(strs) : strs[i] = x })

RECURSIVE Overwritten(_)
\* The map a sequence of maps makes when a later value overwrites.
Overwritten(maps) ==
  IF maps = << >> THEN EmptyMap
  ELSE combine(Overwritten(SubSeq(maps, 1, Len(maps) - 1)), maps[Len(maps)])

\* C27: the tag list of a DataDogClient holds exactly one entry per key of
\* the maps it got with WithTags, with the value of the last map that has
\* the key.
C27_WithTagsOverwrites ==
  \A c \in 1..Len(datadog.clients) :
     LET m == Overwritten(TagMapsOf(c))
     IN  /\ Len(DataDogTags(c)) = Cardinality(DOMAIN m)
         /\ \A k \in DOMAIN m : Count_(DataDogTags(c), buildTag(k, m[k])) = 1

RECURSIVE SumCopies(_, _)
\* How many times the string x is among the strings of the maps.
SumCopies(maps, x) ==
  IF maps = << >> THEN 0
  ELSE (IF x \in DOMAIN mapToStrings(maps[1]) THEN mapToStrings(maps[1])[x] ELSE 0)
         + SumCopies(Tail(maps), x)

\* The two parts of C28: the entries of each tag list, and what a derivation
\* leaves alone.
C28_Entries ==
  \A c \in 1..Len(datadog.clients) :
     LET maps == TagMapsOf(c)
         all  == UNION { DOMAIN mapToStrings(maps[i]) : i \in 1..Len(maps) }
     IN  /\ \A x \in all :
               Count_(DataDogTags(c), x) = SumCopies(maps, x)
         /\ \A i \in 1..Len(DataDogTags(c)) : DataDogTags(c)[i] \in all
         /\ (frame[1].op = "Tags" /\ frame[1].c = c) =>
               /\ Len(frame[1].ret) = Len(DataDogTags(c))
               /\ \A x \in all : Count_(frame[1].ret, x) = Count_(DataDogTags(c), x)
               /\ \A i \in 1..(Len(frame[1].ret) - 1) :
                     ~StrLess(frame[1].ret[i + 1], frame[1].ret[i])

C28_Derive ==
  Len(datadog'.clients) > Len(datadog.clients) =>
     \A c \in 1..Len(datadog.clients) :
        /\ datadog'.clients[c] = datadog.clients[c]
        /\ Elems(datadog'.arrays, datadog'.clients[c].tags) = DataDogTags(c)

\* C28: the tag list of a DataDogClient holds every key:value entry of every
\* map it got with WithTags, so a key of two maps is there twice and the
\* length is the sum of the sizes of the maps; what Tags returned is that
\* list in ascending order; and WithTags and WithRate leave the tag list of
\* every client that was there, the receiver's included, as it was.
C28_WithTagsAppends ==
  /\ []C28_Entries
  /\ [][C28_Derive]_vars

\* Tags returned a:1 a:2 b:2 for a client made by WithTags(a:1) and then
\* WithTags(a:2, b:2): key a is there twice.
C28_Witness ==
  /\ frame[1].op = "Tags"
  /\ TagMapsOf(frame[1].c) = << TagA1, TagA2B2 >>
  /\ frame[1].ret = << <<"a", ":", "1">>, <<"a", ":", "2">>, <<"b", ":", "2">> >>

\* A call of a log without its id: what a child observed.
Observed(call) ==
  IF call.type = "MetricCall"
  THEN [type |-> call.type, Name |-> call.Name, Value |-> call.Value,
        Rate |-> call.Rate, TagMap |-> call.TagMap]
  ELSE [type |-> call.type, Event |-> call.Event, TagMap |-> call.TagMap]

ObservedBy(ci) ==
  [i \in 1..callInfo[ci].Calls.len |-> Observed(arrays[callInfo[ci].Calls.arr][i])]

\* Operation k of a MultiClient went once to each child, in child order and
\* with its arguments, and nothing else was called before the next operation.
ForwardedOnce(k) ==
  LET call == multi.calls[k]
      cs   == multi.clients[call.m].clients
  IN  /\ Len(made) >= call.base + Len(cs)
      /\ k < Len(multi.calls) => multi.calls[k + 1].base = call.base + Len(cs)
      /\ k = Len(multi.calls) => Len(made) = call.base + Len(cs)
      /\ \A i \in 1..Len(cs) :
            LET made_i == made[call.base + i]
            IN  /\ made_i.c = cs[i]
                /\ made_i.outcome = "returned"
                /\ call.op = "Incr" =>
                      /\ made_i.type = "MetricCall"
                      /\ made_i.name = call.arg
                      /\ made_i.value = Int64(1)
                /\ call.op = "Decr" =>
                      /\ made_i.type = "MetricCall"
                      /\ made_i.name = call.arg
                      /\ made_i.value = Int64(0 - 1)
                /\ call.op \in {"Count", "Gauge", "Timing", "Histogram"} =>
                      /\ made_i.type = "MetricCall"
                      /\ made_i.name = call.arg.name
                      /\ made_i.value =
                            (IF call.op = "Count" THEN Int64(call.arg.value)
                             ELSE IF call.op = "Timing" THEN Duration(call.arg.value)
                             ELSE Float64(call.arg.value))
                /\ call.op = "Event" =>
                      made_i.type = "EventCall" /\ made_i.e = call.arg

\* The children of a MultiClient made by WithTags or WithRate are that
\* call's clones of the receiver's children, in order, and the children of
\* the constructor's MultiClient are those it was given.
ChildLists ==
  \A m \in 1..Len(multi.clients) :
     LET from == multi.clients[m].parent
         cs   == multi.clients[m].clients
     IN  IF from.c = 0 THEN cs = << 1, 2 >>
         ELSE /\ Len(cs) = Len(multi.clients[from.c].clients)
              /\ \A i \in 1..Len(cs) :
                    parent[cs[i]] = [c |-> multi.clients[from.c].clients[i],
                                     op |-> from.op, arg |-> from.arg]

\* C29: every operation invoked on a MultiClient, also on one made by its
\* WithTags or WithRate, returns having gone exactly once to each child, in
\* child order and with the same arguments; so when no operation is in
\* progress the two recorders have observed the same calls; and WithTags and
\* WithRate leave the child list of every MultiClient as it was.
C29_ForwardsToEveryChild ==
  /\ ChildLists
  /\ \A k \in 1..Len(multi.calls) :
        multi.calls[k].outcome # "running" =>
           multi.calls[k].outcome = "returned" /\ ForwardedOnce(k)
  /\ (Len(callInfo) = 2 /\ MultiCall(1) = 0 /\ Quiescent) =>
        ObservedBy(1) = ObservedBy(2)

\* Does operation k run into the panic of Event on a handle with tags?
EventOnTags(k) ==
  /\ multi.calls[k].op = "Event"
  /\ DOMAIN clients[multi.clients[multi.calls[k].m].clients[1]].tagMap # {}

\* The same, apart from Event on a MultiClient whose children carry tags,
\* which panics in the first child and reaches no other: this holds.
C29_ForwardsUnlessEventPanics ==
  /\ ChildLists
  /\ \A k \in 1..Len(multi.calls) :
        multi.calls[k].outcome # "running" =>
           IF EventOnTags(k)
           THEN /\ multi.calls[k].outcome = "panic"
                /\ k = Len(multi.calls) => Len(made) = multi.calls[k].base + 1
           ELSE multi.calls[k].outcome = "returned" /\ ForwardedOnce(k)
  /\ (Len(callInfo) = 2 /\ MultiCall(1) = 0 /\ Quiescent) =>
        ObservedBy(1) = ObservedBy(2)

\* Two operations, one of them on a MultiClient made by WithTags, have gone
\* to both recorders.
C29_ForwardedWitness ==
  /\ Len(multi.calls) = 2
  /\ \A k \in 1..2 : multi.calls[k].outcome = "returned"
  /\ \E k \in 1..2 : multi.clients[multi.calls[k].m].parent.op = "WithTags"
  /\ callInfo[1].Calls.len = 2
  /\ callInfo[2].Calls.len = 2

\* Does call satisfy the predicate of filter step op with arguments args?
C30_Pred(op, args, call) ==
  CASE op = "ID"       -> ID_pred(call, args[1])
    [] op = "Contains" -> Contains_(String(call), args[1])
    [] op = "Value"    -> Value_pred(call, args[1])
    [] op = "Text"     -> Text_pred(call, args[1])
    [] op = "Tag"      -> Tag_pred(call, args[1], args[2])
    [] op = "TagName"  -> TagName_pred(call, args[1])

\* The i-th smallest number of a set of numbers.
Ith(S, i) == CHOOSE j \in S : Cardinality({ x \in S : x <= j }) = i

\* The position in q's snapshot of q's i-th candidate (ids are unique).
PosInSnap(q, i) ==
  CHOOSE j \in 1..Len(queries[q].snap) : queries[q].snap[j] = queries[q].calls[i]

\* The two parts of C30: the candidates within the snapshot, and one step.
C30_Subsequence ==
  \A q \in 1..Len(queries) :
     /\ \A i \in 1..Len(queries[q].calls) :
           \E j \in 1..Len(queries[q].snap) : queries[q].snap[j] = queries[q].calls[i]
     /\ \A i, j \in 1..Len(queries[q].calls) :
           i < j => PosInSnap(q, i) < PosInSnap(q, j)

C30_Step ==
  \A q \in 1..Len(queries) :
     queries'[q].nsteps = queries[q].nsteps + 1 =>
        LET old  == queries[q].calls
            new  == queries'[q].calls
            op   == frame'[1].op
            keep == { j \in 1..Len(old) : C30_Pred(op, frame'[1].arg.args, old[j]) }
        IN  /\ Len(new) <= Len(old)
            /\ op \in FilterOps =>
                  /\ Len(new) = Cardinality(keep)
                  /\ \A i \in 1..Len(new) : new[i] = old[Ith(keep, i)]

\* C30: a filter step leaves exactly the candidates that satisfy its
\* predicate, in the order they had; so the candidates of a query are
\* always calls of its snapshot in the snapshot's order, and no step of a
\* chain makes them more.
C30_FilterKeepsMatches ==
  /\ []C30_Subsequence
  /\ [][C30_Step]_vars

\* A filter step dropped the first of two candidates and kept the second.
C30_Witness ==
  /\ Len(queries) = 1
  /\ frame[1].op \in FilterOps
  /\ queries[1].nsteps = 2
  /\ Len(queries[1].snap) = 2
  /\ queries[1].calls = << queries[1].snap[2] >>

\* A filter step kept two candidates, in their order.
C30_WitnessBoth ==
  /\ Len(queries) = 1
  /\ frame[1].op \in FilterOps
  /\ queries[1].nsteps = 2
  /\ Len(queries[1].snap) = 2
  /\ queries[1].calls = queries[1].snap

\* The id a recorded call was made with: the name handed to the metric
\* operation, or the title of the event handed to Event.
MadeId(call) ==
  IF made[call.id].type = "MetricCall" THEN made[call.id].name
  ELSE made[call.id].e.Title

\* The two parts of C31: one ID step, and the calls of Expect(id).
C31_Step ==
  \A q \in 1..Len(queries) :
     (StepOn(q) /\ frame'[1].op = "ID" /\ frame'[1].arg.args[1] # Star) =>
        queries'[q].calls =
           SelectSeq(queries[q].calls, LAMBDA call : MadeId(call) = frame'[1].arg.args[1])

C31_Expect ==
  \A q \in 1..Len(queries) :
     (queries[q].entry = "Expect" /\ queries[q].arg # Star /\ queries[q].nsteps >= 1) =>
        /\ \A i \in 1..Len(query_GetCalls(q)) :
              MadeId(query_GetCalls(q)[i]) = queries[q].arg
        /\ queries[q].nsteps = 1 =>
              \A j \in 1..Len(queries[q].snap) :
                 MadeId(queries[q].snap[j]) = queries[q].arg =>
                    \E i \in 1..Len(query_GetCalls(q)) :
                       query_GetCalls(q)[i] = queries[q].snap[j]

\* C31: ID(id), id not "*", keeps exactly the metrics made with the name id
\* and the events made with the title id, in their order; the calls of
\* Expect(id) never include a call made with another name or title, and
\* right after Expect(id) they include every call of the log made with id.
C31_IDKeepsExactlyTheId ==
  /\ []C31_Expect
  /\ [][C31_Step]_vars

\* Expect("f") on a log of a metric g and a metric f: only f is left.
C31_Witness ==
  \E q \in 1..Len(queries) :
     /\ queries[q].entry = "Expect" /\ queries[q].arg = F
     /\ queries[q].nsteps = 1
     /\ Len(queries[q].snap) = 2
     /\ MadeId(queries[q].snap[1]) = G
     /\ query_GetCalls(q) = << queries[q].snap[2] >>

\* Expect("g") on a log of an event titled f and a metric g: the event is
\* dropped.
C31_WitnessEvent ==
  \E q \in 1..Len(queries) :
     /\ queries[q].entry = "Expect" /\ queries[q].arg = G
     /\ queries[q].nsteps = 1
     /\ Len(queries[q].snap) = 2
     /\ queries[q].snap[1].type = "EventCall"
     /\ query_GetCalls(q) = << queries[q].snap[2] >>

\* Was the recorded call made as a metric with the value v, or as an event
\* with the text text?
MadeValue(call, v) ==
  /\ made[call.id].type = "MetricCall"
  /\ v.kind \in {"int64", "float64", "Duration"}
  /\ made[call.id].value.v = v.v

MadeText(call, text) ==
  made[call.id].type = "EventCall" /\ made[call.id].e.Text = text

\* The parts of C32: a Value or Text step that returns, Value right after
\* Expect(id) found events only, and a chain with both filters.
C32_Step ==
  \A q \in 1..Len(queries) :
     (StepOn(q) /\ frame'[1].outcome # "panic") =>
        /\ frame'[1].op = "Value" =>
              queries'[q].calls =
                 SelectSeq(queries[q].calls,
                           LAMBDA call : MadeValue(call, frame'[1].arg.args[1]))
        /\ frame'[1].op = "Text" =>
              queries'[q].calls =
                 SelectSeq(queries[q].calls,
                           LAMBDA call : MadeText(call, frame'[1].arg.args[1]))

C32_ValueOnEvents ==
  \A q \in 1..Len(queries) :
     (/\ StepOn(q) /\ frame'[1].op = "Value"
      /\ queries[q].entry = "Expect" /\ queries[q].nsteps = 1 /\ HasReporter(q)
      /\ \A j \in 1..Len(queries[q].snap) :
            MadeId(queries[q].snap[j]) = queries[q].arg =>
               made[queries[q].snap[j].id].type = "EventCall") =>
        CallsFatalf(1, q, "Value")

C32_Both ==
  \A q \in 1..Len(queries) :
     (/\ \E i \in 1..Len(queries[q].trace) : queries[q].trace[i] = "Value"
      /\ \E i \in 1..Len(queries[q].trace) : queries[q].trace[i] = "Text") =>
        queries[q].calls = << >>

\* C32: Value(v) keeps exactly the metrics made with the value v and drops
\* every event, Text(t) keeps exactly the events made with the text t and
\* drops every metric; Expect(id).Value(v) reports a failure when the calls
\* made with id are all events; a chain with both Value and Text has no
\* candidate left.
C32_ValueAndText ==
  /\ []C32_Both
  /\ [][FatalfReports /\ C32_Step /\ C32_ValueOnEvents]_vars

\* Expect("f").Value(1) on a log whose only call is the event titled f: the
\* pre-filter kept the event, Value dropped it and reported.
C32_Witness ==
  \E q \in 1..Len(queries) :
     /\ queries[q].entry = "Expect" /\ queries[q].arg = F /\ HasReporter(q)
     /\ Len(queries[q].snap) = 1 /\ queries[q].snap[1].type = "EventCall"
     /\ queries[q].trace = << "ID", "Value" >>
     /\ queries[q].calls = << >>
     /\ Len(fatals) = 1 /\ fatals[1].op = "Value" /\ fatals[1].step = 2

\* A chain with Value and Text on a log of two calls, the first a metric: no
\* candidate is left after Text.
C32_WitnessBoth ==
  \E q \in 1..Len(queries) :
     /\ queries[q].trace = << "ID", "Value", "Text" >>
     /\ Len(queries[q].snap) = 2
     /\ queries[q].snap[1].type = "MetricCall"
     /\ queries[q].calls = << >>
     /\ frame[1].op = "Text"

\* Text("d") kept the event and dropped the metric made with the same id.
C32_WitnessText ==
  \E q \in 1..Len(queries) :
     /\ queries[q].trace = << "ID", "Text" >>
     /\ Len(queries[q].snap) = 2
     /\ queries[q].snap[1].type = "MetricCall"
     /\ queries[q].calls = << queries[q].snap[2] >>

\* The tags of the handle a recorded call was made through.
MadeTags(call) == clients[made[call.id].c].tagMap

\* The position of x in a sequence that holds it once.
Pos(S, x) == CHOOSE j \in 1..Len(S) : S[j] = x

\* Is a a subsequence of b (the elements of b being distinct)?
IsSubsequence(a, b) ==
  /\ \A i \in 1..Len(a) : \E j \in 1..Len(b) : b[j] = a[i]
  /\ \A i, j \in 1..Len(a) : i < j => Pos(b, a[i]) < Pos(b, a[j])

\* One Tag or TagName step of C33.
C33_Step ==
  \A q \in 1..Len(queries) :
     StepOn(q) =>
        LET old  == queries[q].calls
            new  == queries'[q].calls
            args == frame'[1].arg.args
        IN  /\ frame'[1].op = "Tag" =>
                  /\ new = SelectSeq(old, LAMBDA call :
                                 /\ args[1] \in DOMAIN MadeTags(call)
                                 /\ MadeTags(call)[args[1]] = args[2])
                  /\ IsSubsequence(new,
                        filter(old, [call \in Candidates(q) |->
                                       TagName_pred(call, args[1])]))
            /\ frame'[1].op = "TagName" =>
                  new = SelectSeq(old, LAMBDA call : args[1] \in DOMAIN MadeTags(call))
            /\ frame'[1].op \in {"Tag", "TagName"} =>
                  \A i \in 1..Len(new) : MadeTags(new[i]) # EmptyMap

\* C33: Tag(name, value) keeps exactly the calls made through a handle
\* whose tags have name with the value value, TagName(name) exactly those
\* made through a handle whose tags have name; what Tag keeps is a
\* subsequence of what TagName keeps of the same candidates, and a call
\* made through a handle without tags is kept by neither.
C33_TagAndTagName == [][C33_Step]_vars

\* Tag("a", "1") on two metrics tagged a:2 and a:1 kept the second only;
\* TagName("a") keeps both.
C33_Witness ==
  \E q \in 1..Len(queries) :
     /\ queries[q].trace = << "ID", "Tag" >>
     /\ queries[q].args[2] = << A, <<"1">> >>
     /\ Len(queries[q].snap) = 2
     /\ queries[q].snap[1].TagMap = TagA2
     /\ queries[q].snap[2].TagMap = TagA1
     /\ queries[q].calls = << queries[q].snap[2] >>

\* TagName("a") on a metric without tags and a metric tagged a:2 kept the
\* second only.
C33_WitnessTagName ==
  \E q \in 1..Len(queries) :
     /\ queries[q].trace = << "ID", "TagName" >>
     /\ Len(queries[q].snap) = 2
     /\ queries[q].snap[1].TagMap = EmptyMap
     /\ queries[q].snap[2].TagMap = TagA2
     /\ queries[q].calls = << queries[q].snap[2] >>

\* An event, recorded without tags, was dropped by Tag.
C33_WitnessEvent ==
  \E q \in 1..Len(queries) :
     /\ queries[q].trace = << "ID", "Tag" >>
     /\ Len(queries[q].snap) = 1
     /\ queries[q].snap[1].type = "EventCall"
     /\ queries[q].calls = << >>

\* Was the recorded call made as a metric through a handle of rate r?
MadeAtRate(call, r) ==
  made[call.id].type = "MetricCall" /\ clients[made[call.id].c].rate = r

\* The parts of C34: one Rate step, and the two chains on a metric recorded
\* at the rate 0.1.
C34_Step ==
  \A q \in 1..Len(queries) :
     (StepOn(q) /\ frame'[1].op = "Rate") =>
        queries'[q].calls =
           SelectSeq(queries[q].calls, LAMBDA call : MadeAtRate(call, frame'[1].arg.args[1]))

C34_Sampled ==
  \A q \in 1..Len(queries) :
     LET ofId == { j \in 1..Len(queries[q].snap) :
                     MadeId(queries[q].snap[j]) = queries[q].arg }
     IN  /\ (/\ queries[q].entry = "If"
              /\ queries[q].trace = << "ID", "Rate", "Reject" >>
              /\ queries[q].args[2] = << RateOne >>
              /\ \A j \in ofId : MadeAtRate(queries[q].snap[j], 1)) =>
                FatalsOf(fatals, q) = << >> /\ frame[1].outcome = "returned"
         /\ (/\ queries[q].entry = "Expect"
              /\ queries[q].trace = << "ID", "Rate" >>
              /\ queries[q].args[2] = << 1 >>
              /\ \E j \in ofId : MadeAtRate(queries[q].snap[j], 1)) =>
                FatalsOf(fatals, q) = << >> /\ frame[1].outcome = "returned"

\* C34: Rate(r) keeps exactly the metrics recorded through a handle of rate
\* r and drops every other call; after WithRate(0.1).Incr(id),
\* If(id).Rate(1.0).Reject() reports no failure and Expect(id).Rate(0.1)
\* reports no failure.
C34_RateFilter ==
  /\ []C34_Sampled
  /\ [][C34_Step]_vars

\* WithRate(0.1).Incr("f"), then Expect("f").Rate(0.1): the call is kept and
\* nothing is reported.
C34_Witness ==
  \E q \in 1..Len(queries) :
     /\ queries[q].entry = "Expect" /\ queries[q].arg = F /\ HasReporter(q)
     /\ queries[q].trace = << "ID", "Rate" >>
     /\ queries[q].args[2] = << 1 >>
     /\ Len(queries[q].snap) = 1
     /\ queries[q].snap[1].type = "MetricCall"
     /\ queries[q].snap[1].Rate = 1
     /\ queries[q].calls = queries[q].snap
     /\ fatals = << >>

\* WithRate(0.1).Incr("f"), then If("f").Rate(1.0).Reject(): no call is left
\* and Reject reports nothing.
C34_WitnessReject ==
  \E q \in 1..Len(queries) :
     /\ queries[q].entry = "If" /\ queries[q].arg = F /\ HasReporter(q)
     /\ queries[q].trace = << "ID", "Rate", "Reject" >>
     /\ queries[q].args[2] = << RateOne >>
     /\ Len(queries[q].snap) = 1
     /\ queries[q].snap[1].type = "MetricCall"
     /\ queries[q].snap[1].Rate = 1
     /\ queries[q].calls = << >>
     /\ fatals = << >>

\* The threshold of a query struct, from the calls of the chain: the number
\* handed to the last MinTimes, and 1 when there was none.
ThresholdOf(qr) == IF qr.mins = << >> THEN 1 ELSE qr.mins[Len(qr.mins)]

\* Does the step call Fatalf for the failure of its operation on query q?
ReportsOn(q) == CallsFatalf(1, q, frame'[1].op)

\* One step of a chain on a handle with a reporter, as C35 has it.
C35_Step ==
  \A q \in 1..Len(queries) :
     (StepOn(q) /\ HasReporter(q)) =>
        LET op  == frame'[1].op
            old == queries[q]
            new == queries'[q]
        IN  IF old.entry \in {"Expect", "ExpectContains"}
            THEN /\ op = "MinTimes" =>
                       /\ new.calls = old.calls
                       /\ IF Len(old.calls) < ThresholdOf(new)
                          THEN ReportsOn(q) ELSE NoReport
                 /\ op \in FilterOps =>
                       /\ ThresholdOf(new) = ThresholdOf(old)
                       /\ IF Len(new.calls) < ThresholdOf(old)
                          THEN ReportsOn(q) ELSE NoReport
            ELSE /\ op = "MinTimes" =>
                       /\ new.calls = old.calls
                       /\ NoReport /\ frame'[1].outcome = "returned"
                 /\ op = "Accept" =>
                       IF Len(old.calls) < ThresholdOf(old)
                       THEN ReportsOn(q) ELSE NoReport
                 /\ op = "Reject" =>
                       IF Len(old.calls) >= ThresholdOf(old)
                       THEN ReportsOn(q) ELSE NoReport

\* C35: MinTimes(n) makes n the threshold for the rest of the chain.  In a
\* chain of Expect or ExpectContains the MinTimes step reports exactly when
\* fewer than n calls are left, and so does every later filter step; in a
\* chain of If the MinTimes step reports nothing and a later Accept or
\* Reject compares the calls left with n.
C35_MinTimesSetsThreshold == [][FatalfReports /\ C35_Step]_vars

\* Expect(id).MinTimes(2) with one call of the id reported at the MinTimes
\* step, and the filter that followed and kept the call reported again.
C35_Witness ==
  \E q \in 1..Len(queries) :
     /\ queries[q].entry = "Expect" /\ HasReporter(q)
     /\ queries[q].nsteps = 3
     /\ queries[q].trace[2] = "MinTimes" /\ queries[q].mins = << 2 >>
     /\ queries[q].trace[3] \in FilterOps
     /\ Len(queries[q].calls) = 1
     /\ Len(fatals) = 2
     /\ fatals[1].op = "MinTimes" /\ fatals[1].step = 2
     /\ fatals[2].step = 3

\* If(id).MinTimes(2).Reject() with two calls of the id: MinTimes reported
\* nothing and Reject reported.
C35_WitnessIf ==
  \E q \in 1..Len(queries) :
     /\ queries[q].entry = "If" /\ HasReporter(q)
     /\ queries[q].trace = << "ID", "MinTimes", "Reject" >>
     /\ queries[q].mins = << 2 >>
     /\ Len(queries[q].calls) = 2
     /\ Len(fatals) = 1 /\ fatals[1].op = "Reject" /\ fatals[1].step = 3

\* MinTimes(2) and then MinTimes(1) with one call: the second reported
\* nothing.
C35_WitnessLower ==
  \E q \in 1..Len(queries) :
     /\ queries[q].entry = "Expect" /\ HasReporter(q)
     /\ queries[q].mins = << 2, 1 >>
     /\ Len(queries[q].calls) = 1
     /\ Len(fatals) = 1 /\ fatals[1].step = 2

\* Is the step a call of Value on query q with a value that does not
\* convert to a number?
ValueOfNoNumber(q) ==
  /\ StepOn(q)
  /\ frame'[1].op = "Value"
  /\ frame'[1].arg.args[1].kind \notin {"int64", "float64", "Duration"}

\* C36: Value with a value that cannot be coerced to a number panics
\* whenever it is invoked, whatever the candidates are; nothing goes to the
\* reporter and the call does not return as a filter that matched nothing.
C36_ValuePanicsOnNoNumber ==
  [][ \A q \in 1..Len(queries) :
         ValueOfNoNumber(q) =>
            frame'[1].outcome = "panic" /\ fatals' = fatals
    ]_vars

\* What the code does: the value is converted inside the predicate, for a
\* MetricCall only, so the call panics exactly when a metric is among the
\* candidates; otherwise it is a filter that leaves nothing, and a chain
\* that checks the minimum reports the failure.
C36_ValuePanicsOnMetricsOnly ==
  [][ \A q \in 1..Len(queries) :
         ValueOfNoNumber(q) =>
            IF \E i \in 1..Len(queries[q].calls) :
                  made[queries[q].calls[i].id].type = "MetricCall"
            THEN frame'[1].outcome = "panic" /\ fatals' = fatals
            ELSE /\ queries'[q].calls = << >>
                 /\ frame'[1].outcome # "panic"
                 /\ fatals' = fatals
                 /\ pc'[1] = "Fatalf" <=> (queries[q].entry # "If" /\ HasReporter(q))
    ]_vars

\* Value("x") on a chain that holds a metric panicked.
C36_PanicWitness ==
  \E q \in 1..Len(queries) :
     /\ queries[q].trace = << "ID", "Value" >>
     /\ queries[q].args[2][1].kind = "string"
     /\ frame[1].outcome = "panic"
     /\ fatals = << >>

\* Expect("f").Value("x") on a log whose only call is an event returned and
\* reported through the reporter.
C36_ReportWitness ==
  \E q \in 1..Len(queries) :
     /\ queries[q].entry = "Expect"
     /\ queries[q].trace = << "ID", "Value" >>
     /\ queries[q].args[2][1].kind = "string"
     /\ Len(queries[q].snap) = 1
     /\ frame[1].outcome = "returned"
     /\ Len(fatals) = 1 /\ fatals[1].op = "Value"

\* The maps that handles, log entries and the caller refer to.
ClientMaps == { tagmaps.clients[h].tagMap : h \in 1..Len(tagmaps.clients) }

CallerMaps == { tagmaps.caller[i] : i \in 1..Len(tagmaps.caller) }

\* No step changes the tags of a handle or of an entry of the log.
C37_Step ==
  /\ \A h \in 1..Len(tagmaps.clients) :
        MapOf(tagmaps'.heap, tagmaps'.clients[h].tagMap)
           = MapOf(tagmaps.heap, tagmaps.clients[h].tagMap)
  /\ \A e \in 1..Len(tagmaps.Calls) :
        /\ tagmaps'.Calls[e] = tagmaps.Calls[e]
        /\ MapOf(tagmaps'.heap, tagmaps'.Calls[e].TagMap)
              = MapOf(tagmaps.heap, tagmaps.Calls[e].TagMap)

\* The map of an entry is its own: no other entry, no handle and no
\* variable of the caller refers to it; no handle refers to a map of the
\* caller.
C37_Private ==
  /\ \A e \in 1..Len(tagmaps.Calls) :
        LET m == tagmaps.Calls[e].TagMap
        IN  m # 0 =>
               /\ \A d \in 1..Len(tagmaps.Calls) : d # e => tagmaps.Calls[d].TagMap # m
               /\ m \notin ClientMaps \cup CallerMaps
  /\ ClientMaps \cap CallerMaps = {}

\* C37: the tags stored with a call are a private copy.  A store of the
\* caller into the map it handed to WithTags, a further WithTags, WithRate
\* or WithTest, and a further recording call all leave the tags of every
\* handle and of every entry of the log as they were, and no two entries
\* refer to the same map.
C37_TagsArePrivateCopies ==
  /\ []C37_Private
  /\ [][C37_Step]_vars

\* The caller handed {a:1} to WithTags, recorded two metrics through the
\* handle and then stored a:2 into its map: the handle and both entries
\* have a:1, each entry in a map of its own.
C37_Witness ==
  /\ Len(tagmaps.caller) >= 1 /\ Len(tagmaps.clients) >= 2 /\ Len(tagmaps.Calls) = 2
  /\ tagmaps.heap[tagmaps.caller[1]] = TagA2
  /\ tagmaps.clients[2].tagMap # 0
  /\ tagmaps.heap[tagmaps.clients[2].tagMap] = TagA1
  /\ \A e \in 1..2 :
        /\ tagmaps.Calls[e].c = 2
        /\ MapOf(tagmaps.heap, tagmaps.Calls[e].TagMap) = TagA1
  /\ tagmaps.Calls[1].TagMap # tagmaps.Calls[2].TagMap

\* Where a goroutine is while it holds the lock of the log: for writing,
\* for reading.
WriterPcs == {"logCall", "logCall_store", "Event", "Event_store", "Reset", "Unlock"}

ReaderPcs == {"Length", "callsCopy", "callsCopy_loop", "ExpectEmpty", "RUnlock"}

\* The lock is held exactly by the goroutines inside a critical section; a
\* goroutine whose operation is over, however it ended, holds nothing.
C38_LockFreeOnExit ==
  \A ci \in 1..Len(callInfo) :
     LET m    == callInfo[ci].RWMutex
         at(S) == { t \in Threads : pc[t] \in S /\ clients[frame[t].c].callInfo = ci }
     IN  /\ m.r = Cardinality(at(ReaderPcs))
         /\ m.w <=> at(WriterPcs) # {}
         /\ Cardinality(at(WriterPcs)) <= 1
         /\ m.ww = Cardinality(at({"Lock", "Lock_wait"}))
         /\ m.ann <=> at({"Lock_wait"}) # {}

\* Every operation a goroutine invoked is over at some later time.
C38_Completes == \A t \in Threads : (pc[t] # "idle") ~> (pc[t] = "idle")

\* C38: every operation of the recorder (a recording call, Reset, Length,
\* ExpectEmpty, the making of a query) completes once it is invoked, and the
\* goroutine holds no lock of the log when it is over, also when it ended
\* in the panic of a missing reporter or in a reporter that ends the
\* goroutine; so an Incr, Reset or Length invoked later by any goroutine
\* completes.  The reporters are those that return, end the goroutine, or
\* are missing.
C38_OperationsComplete ==
  /\ []C38_LockFreeOnExit
  /\ C38_Completes

\* ExpectEmpty on a log with a call, through the handle without a reporter,
\* panicked; an Incr took the lock after it and returned; the lock is free.
C38_Witness ==
  \E t, u \in Threads :
     /\ pc[t] = "idle" /\ frame[t].op = "ExpectEmpty" /\ frame[t].outcome = "panic"
     /\ pc[u] = "idle" /\ frame[u].op = "logCall" /\ frame[u].outcome = "returned"
     /\ Len(acq) > frame[t].nacq
     /\ acq[Len(acq)].id = frame[u].id
     /\ callInfo[1].RWMutex = FreeMutex

\* ExpectEmpty failed through a reporter that ends the goroutine, and a
\* Reset invoked later returned.
C38_WitnessExit ==
  \E t, u \in Threads :
     /\ pc[t] = "idle" /\ frame[t].op = "ExpectEmpty" /\ frame[t].outcome = "exit"
     /\ pc[u] = "idle" /\ frame[u].op = "Reset" /\ frame[u].outcome = "returned"
     /\ Len(acq) > frame[t].nacq
     /\ acq[Len(acq)].op = "Reset"
     /\ callInfo[1].RWMutex = FreeMutex

\* A goroutine is appending to the log or resetting it: it holds the lock
\* for writing and its store is to come.
Writing(u) == pc[u] \in {"logCall", "logCall_store", "Event", "Event_store", "Reset"}

\* C39: every access to the sequence of calls is made with the lock of the
\* log held, for writing by the appends and Reset, at least for reading by
\* Length, the snapshot of a query, GetCalls and the dump of the log in a
\* failure message; in no state does a goroutine read the sequence without
\* the lock while another appends or resets.
C39_EveryAccessUnderLock ==
  /\ \A t, u \in Threads :
        ~(/\ t # u
          /\ pc[t] = "GetCalls"
          /\ Writing(u)
          /\ clients[frame[t].c].callInfo = clients[frame[u].c].callInfo)
  /\ \A i \in 1..Len(fatals) : ~fatals[i].mutex.w

\* The accesses that do hold the lock: a goroutine inside Length, callsCopy
\* or ExpectEmpty is there with no writer, and a writer is alone.
C39_LockedAccesses ==
  \A t, u \in Threads :
     (t # u /\ Writing(u) /\ (pc[t] \in ReaderPcs \/ Writing(t))) =>
        clients[frame[t].c].callInfo # clients[frame[u].c].callInfo

\* The dump of the log in a failure message is read while a writer holds
\* the lock.
C39_DumpDuringWrite ==
  \E i \in 1..Len(fatals) : fatals[i].mutex.w

\* Are the arguments a and b of two applications of filter op the same?
SameArgs(op, a, b) ==
  IF op = "Value" THEN a[1].kind = b[1].kind /\ a[1].v = b[1].v ELSE a = b

\* Has query q2, as far as it went, applied after its pre-filter the filters
\* that the complete query q1 applied after its own, in the opposite order?
InReverse(q1, q2) ==
  /\ q1 # q2
  /\ queries[q1].snap = queries[q2].snap
  /\ queries[q1].arg = queries[q2].arg
  /\ queries[q1].nsteps = CSteps
  /\ ~queries[q1].done
  /\ queries[q2].nsteps >= 2
  /\ \A j \in 2..queries[q2].nsteps :
        /\ queries[q2].trace[j] = queries[q1].trace[CSteps + 2 - j]
        /\ SameArgs(queries[q2].trace[j], queries[q2].args[j],
                    queries[q1].args[CSteps + 2 - j])

\* C40: the filters Contains, ID, Value, Text, Tag and TagName commute on
\* the candidates: when a chain has applied its filters and is going on, a
\* chain on the same log that applies the same filters in the opposite order
\* goes on as well, and once it has applied them all it has the same
\* candidates, in the same order.
C40_FiltersCommute ==
  \A q1, q2 \in 1..Len(queries) :
     InReverse(q1, q2) =>
        /\ ~queries[q2].done
        /\ queries[q2].nsteps = CSteps => queries[q2].calls = queries[q1].calls

\* What the code does: the two orders leave the same candidates whenever
\* neither chain was ended by the panic of Value.
C40_CommuteUnlessPanic ==
  \A q1, q2 \in 1..Len(queries) :
     (InReverse(q1, q2) /\ queries[q2].nsteps = CSteps /\ ~queries[q2].done)
        => queries[q2].calls = queries[q1].calls

\* The order decides whether Value panics only for a value that is not a
\* number.
C40_OnlyValuePanics ==
  \A q1, q2 \in 1..Len(queries) :
     (InReverse(q1, q2) /\ queries[q2].done) =>
        LET j == queries[q2].nsteps
        IN  /\ queries[q2].trace[j] = "Value"
            /\ queries[q2].args[j][1].kind = "string"
            /\ queries[q1].calls = << >>

\* A filter applied right after itself, with the same arguments, leaves the
\* candidates as they are.
C40_Idempotent ==
  [][ \A q \in 1..Len(queries) :
         (/\ StepOn(q)
          /\ queries[q].nsteps >= 1
          /\ queries'[q].trace[queries'[q].nsteps] = queries[q].trace[queries[q].nsteps]
          /\ SameArgs(queries[q].trace[queries[q].nsteps],
                      queries'[q].args[queries'[q].nsteps],
                      queries[q].args[queries[q].nsteps])
          /\ frame'[1].outcome # "panic")
            => queries'[q].calls = queries[q].calls
    ]_vars

\* Two chains applied two different filters in opposite orders to two
\* candidates, and both are left with the same single call.
C40_WitnessCommute ==
  \E q1, q2 \in 1..Len(queries) :
     /\ InReverse(q1, q2)
     /\ queries[q2].nsteps = CSteps
     /\ queries[q1].trace # queries[q2].trace
     /\ Len(queries[q1].snap) = 2
     /\ Len(queries[q1].calls) = 1
     /\ queries[q2].calls = queries[q1].calls

\* If("f").ID("g").Value("x") went on with no candidates;
\* If("f").Value("x").ID("g") on the same log panicked in Value.
C40_WitnessPanic ==
  \E q1, q2 \in 1..Len(queries) :
     /\ InReverse(q1, q2)
     /\ queries[q1].entry = "If" /\ queries[q2].entry = "If"
     /\ queries[q1].trace = << "ID", "ID", "Value" >>
     /\ queries[q2].trace = << "ID", "Value" >>
     /\ queries[q2].done
     /\ frame[1].outcome = "panic"

\* A filter was applied twice in a row to candidates of which it keeps
\* some and drops some.
C40_WitnessTwice ==
  \E q \in 1..Len(queries) :
     /\ queries[q].nsteps = CSteps
     /\ queries[q].trace[2] = queries[q].trace[3]
     /\ SameArgs(queries[q].trace[2], queries[q].args[2], queries[q].args[3])
     /\ Len(queries[q].calls) = 1
     /\ Len(queries[q].snap) = 2

====
